---- MODULE Spec2Model ----
(***************************************************************************)
(* The Tectonopedia backend: the Nexus server (asset generations and the  *)
(* cross-reference index) and the compiler workers' two-pass pipeline.    *)
(***************************************************************************)
EXTENDS Integers, Sequences, FiniteSets, TLC

(***************************************************************************)
(* Bounds of the model.                                                    *)
(***************************************************************************)
\* /pass1 is only taken while next_proposed_seqnum <= MaxSeq (caps the counter).
MaxSeq == 3
\* The seq_nums an arbitrary /assets_uploaded client sends: 0, every number
\* /pass1 can hand out, and one it never hands out.
AckSeqNums == 0..(MaxSeq + 1)
\* The longest field of an index value sent through the encoding on its own.
MaxFieldLen == 2
\* How many times the queue delivers one job (first delivery plus retries).
MaxRuns == 2

\* The /submit calls of a behaviour.
MaxSubmits == 3

\* The /assets_uploaded and GET /asset requests sent while /pass1 calls are in flight.
MaxServed == 2

(***************************************************************************)
(* Small data.  Strings of the program are sequences of bytes.            *)
(***************************************************************************)
Max(S) == CHOOSE x \in S : \A y \in S : y <= x

\* Option<T>: None is the empty sequence, Some(x) is <<x>>.
None == << >>
Some(x) == << x >>
is_some(o) == Len(o) = 1
unwrap_or_default(o) == IF is_some(o) THEN o[1] ELSE << >>

\* Job ids assigned by the queue; a job id is also the bucket key it submits.
JobIds == {"j1", "j2"}
\* cur_bucket_key at start-up.
FIXME_KEY == "FIXME-get-from-storage"
BucketKeys == JobIds

(***************************************************************************)
(* AssetSpecification (tectonic_engine_spx2html), as the Nexus uses it:   *)
(* a map from asset path to its origin; `save` writes it as a JSON        *)
(* object, `add_from_saved` parses such an object and merges it entry by  *)
(* entry, failing on the first entry that disagrees with the one held.    *)
(***************************************************************************)
AssetPaths == {"tdux.css", "font.otf"}
Origins == {"o1", "o2"}
NoAsset == "absent"

AssetSpecification_default == [p \in AssetPaths |-> NoAsset]

\* The JSON text: whether it parses, and the members of the object.
AssetJson(entries) == [wellformed |-> TRUE, entries |-> entries]
MalformedJson == [wellformed |-> FALSE, entries |-> {}]

save(spec) ==
    AssetJson({<<p, spec[p]>> : p \in {q \in AssetPaths : spec[q] # NoAsset}})

MergeEntries(spec, entries) ==
    [p \in AssetPaths |->
        IF \E e \in entries : e[1] = p
        THEN (CHOOSE e \in entries : e[1] = p)[2]
        ELSE spec[p]]

Conflicting(spec, json) ==
    {e \in json.entries : spec[e[1]] # NoAsset /\ spec[e[1]] # e[2]}

\* Ok(()) or Err of add_from_saved.
add_from_saved_ok(spec, json) ==
    json.wellformed /\ Conflicting(spec, json) = {}

\* The values `spec` may hold after add_from_saved returns.  On success: the
\* merge.  On a parse error nothing was touched.  On a conflict the entries
\* visited before the conflicting one are already merged; the map is walked
\* in hash order, so these are any subset of the agreeing entries.
add_from_saved_results(spec, json) ==
    IF ~json.wellformed THEN {spec}
    ELSE IF Conflicting(spec, json) = {} THEN {MergeEntries(spec, json.entries)}
    ELSE {MergeEntries(spec, done) :
            done \in SUBSET (json.entries \ Conflicting(spec, json))}

\* The pointwise merge of a set of pairwise agreeing specifications.
MergeAll(jsons) ==
    MergeEntries(AssetSpecification_default, UNION {j.entries : j \in jsons})

\* assets.json files that pass 1 of a document may produce.
DocA == AssetJson({<<"tdux.css", "o1">>})
DocB == AssetJson({<<"font.otf", "o1">>})
DocC == AssetJson({<<"tdux.css", "o2">>, <<"font.otf", "o1">>})
AssetDocs == {DocA, DocB, DocC, MalformedJson}

(***************************************************************************)
(* The cross-reference index: byte strings, the metadata lines of         *)
(* pedia.txt and the index-store transaction of POST /pass1.              *)
(***************************************************************************)
INDEX_DEF_MARKER == 128
NUL == 0
MISSING_REF == <<NUL, NUL>>

\* IndexRefFlag bits (backend/src/metadata.rs).
NeedsLoc == 1
NeedsText == 2
has_flag(flags, bit) == (flags \div bit) % 2 = 1

\* "entry-" and ".html".
ENTRY_PREFIX == <<101, 110, 116, 114, 121, 45>>
HTML_SUFFIX == <<46, 104, 116, 109, 108>>

strip_prefix(s, p) ==
    IF Len(s) >= Len(p) /\ SubSeq(s, 1, Len(p)) = p
    THEN Some(SubSeq(s, Len(p) + 1, Len(s)))
    ELSE None

strip_suffix(s, p) ==
    IF Len(s) >= Len(p) /\ SubSeq(s, Len(s) - Len(p) + 1, Len(s)) = p
    THEN Some(SubSeq(s, 1, Len(s) - Len(p)))
    ELSE None

\* Variant: a name without the suffix keeps what follows the prefix, and a
\* name without the prefix loses only the suffix.
entry_stem_lenient(o) ==
    LET a == strip_prefix(o, ENTRY_PREFIX)
        rest == IF is_some(a) THEN a[1] ELSE o
        b == strip_suffix(rest, HTML_SUFFIX)
    IN  IF is_some(b) THEN b[1] ELSE rest

\* o.strip_prefix("entry-").and_then(|s| s.strip_suffix(".html")).unwrap_or_default()
entry_stem(o) ==
    LET a == strip_prefix(o, ENTRY_PREFIX)
        b == IF is_some(a) THEN strip_suffix(a[1], HTML_SUFFIX) ELSE None
    IN  unwrap_or_default(b)

\* bvalue.split(|b| *b == 0): the fields between the NUL bytes, in order.
RECURSIVE split_nul(_)
split_nul(b) ==
    IF \A i \in 1..Len(b) : b[i] # NUL THEN << b >>
    ELSE LET i == CHOOSE k \in 1..Len(b) :
                    b[k] = NUL /\ \A m \in 1..(k - 1) : b[m] # NUL
         IN  << SubSeq(b, 1, i - 1) >> \o split_nul(SubSeq(b, i + 1, Len(b)))

\* The n-th call of fields.next().
next_field(fields, n) == IF n <= Len(fields) THEN Some(fields[n]) ELSE None

\* str::from_utf8 on the bytes the model uses: ASCII is valid, a lone byte
\* >= 0x80 is not.
from_utf8_ok(b) == \A i \in 1..Len(b) : b[i] < 128

\* Variant: an empty slice is returned as it is instead of the default.
maybe_slice_keep_empty(b, default) ==
    IF ~is_some(b) THEN default ELSE b[1]

maybe_slice_to_str_or_default(b, default) ==
    IF ~is_some(b) THEN default
    ELSE IF b[1] = << >> THEN default
    ELSE IF from_utf8_ok(b[1]) THEN b[1]
    ELSE default

\* The database key of (index, entry).
index_bkey(index, entry) == <<INDEX_DEF_MARKER>> \o index \o <<NUL>> \o entry

\* IndexValue::default() and the stored bytes of an IndexValue.
IndexValue_default == [entry |-> None, fragment |-> None, atplain |-> None, tex |-> None]

\* Variants of the encoding: no separators; tex written before plain.
index_bvalue_no_sep(value) ==
    unwrap_or_default(value.entry) \o unwrap_or_default(value.fragment)
        \o unwrap_or_default(value.atplain) \o unwrap_or_default(value.tex)
index_bvalue_tex_first(value) ==
    unwrap_or_default(value.entry) \o <<NUL>>
        \o unwrap_or_default(value.fragment) \o <<NUL>>
        \o unwrap_or_default(value.tex) \o <<NUL>>
        \o unwrap_or_default(value.atplain)

index_bvalue(value) ==
    unwrap_or_default(value.entry) \o <<NUL>>
        \o unwrap_or_default(value.fragment) \o <<NUL>>
        \o unwrap_or_default(value.atplain) \o <<NUL>>
        \o unwrap_or_default(value.tex)

\* Variant: the lookup never finds anything.
txn_get_missing(db, bkey) == MISSING_REF

\* txn.get(db, &bkey).unwrap_or(MISSING_REF)
txn_get(db, bkey) == IF bkey \in DOMAIN db THEN db[bkey] ELSE MISSING_REF

\* One line of resolved_reference_tex.
RRLine(form, index, entry, body) ==
    [form |-> form, index |-> index, entry |-> entry, body |-> body]

\* Metadatum values (the parsed lines of pedia.txt).
Output(o) == [kind |-> "Output", name |-> o]
IndexDef(index, entry, fragment) ==
    [kind |-> "IndexDef", index |-> index, entry |-> entry, fragment |-> fragment]
IndexText(index, entry, tex, atplain) ==
    [kind |-> "IndexText", index |-> index, entry |-> entry, tex |-> tex,
     atplain |-> atplain]
IndexRef(index, entry, flags) ==
    [kind |-> "IndexRef", index |-> index, entry |-> entry, flags |-> flags]

\* "ENTRYREF", the default of the entry field.
ENTRYREF == <<69, 78, 84, 82, 89, 82, 69, 70>>

\* The IndexRef arm: the lines it appends to rrtex.
index_ref_lines(db, index, entry, flags) ==
    LET bvalue == txn_get(db, index_bkey(index, entry))
        fields == split_nul(bvalue)
        entry_text == maybe_slice_to_str_or_default(next_field(fields, 1), ENTRYREF)
        fragment_text == maybe_slice_to_str_or_default(next_field(fields, 2), << >>)
        atplain_text == maybe_slice_to_str_or_default(next_field(fields, 3), entry)
        tex_text == maybe_slice_to_str_or_default(next_field(fields, 4), entry)
    IN  (IF has_flag(flags, NeedsLoc)
         THEN << RRLine("loc", index, entry, entry_text \o fragment_text) >>
         ELSE << >>)
        \o
        (IF has_flag(flags, NeedsText)
         THEN << RRLine("text tex", index, entry, tex_text),
                 RRLine("text plain", index, entry, atplain_text) >>
         ELSE << >>)

\* defs.entry(key).or_default()
defs_entry_or_default(defs, key) ==
    IF key \in DOMAIN defs THEN defs[key] ELSE IndexValue_default

defs_insert(defs, key, val) ==
    [k \in DOMAIN defs \cup {key} |-> IF k = key THEN val ELSE defs[k]]

\* The loop state before the first line.
LoopInit == [current_entry |-> << >>, rrtex |-> << >>, defs |-> << >>]

\* One iteration of `for line in meta_buf.lines()`.
process_line(db, st, line) ==
    CASE line.kind = "IndexRef" ->
            [st EXCEPT !.rrtex =
                @ \o index_ref_lines(db, line.index, line.entry, line.flags)]
      [] line.kind = "IndexDef" ->
            LET key == <<line.index, line.entry>>
                val == defs_entry_or_default(st.defs, key)
            IN  [st EXCEPT !.defs =
                    defs_insert(@, key, [val EXCEPT !.entry = Some(st.current_entry),
                                                    !.fragment = Some(line.fragment)])]
      [] line.kind = "IndexText" ->
            LET key == <<line.index, line.entry>>
                val == defs_entry_or_default(st.defs, key)
            IN  [st EXCEPT !.defs =
                    defs_insert(@, key, [val EXCEPT !.atplain = Some(line.atplain),
                                                    !.tex = Some(line.tex)])]
      [] line.kind = "Output" ->
            [st EXCEPT !.current_entry = entry_stem(line.name)]

RECURSIVE process_lines(_, _, _)
process_lines(db, st, lines) ==
    IF lines = << >> THEN st
    ELSE process_lines(db, process_line(db, st, Head(lines)), Tail(lines))

\* Variant: a field the request did not stage keeps its stored bytes.
put_defs_merging(db, defs) ==
    LET bkeys == {index_bkey(k[1], k[2]) : k \in DOMAIN defs}
        key_of(bk) == CHOOSE k \in DOMAIN defs : index_bkey(k[1], k[2]) = bk
        stored(bk, n) ==
            IF bk \in DOMAIN db /\ n <= Len(split_nul(db[bk]))
            THEN split_nul(db[bk])[n] ELSE << >>
        field(bk, staged, n) == IF is_some(staged) THEN staged[1] ELSE stored(bk, n)
    IN  [bk \in DOMAIN db \cup bkeys |->
            IF bk \in bkeys
            THEN field(bk, defs[key_of(bk)].entry, 1) \o <<NUL>>
                    \o field(bk, defs[key_of(bk)].fragment, 2) \o <<NUL>>
                    \o field(bk, defs[key_of(bk)].atplain, 3) \o <<NUL>>
                    \o field(bk, defs[key_of(bk)].tex, 4)
            ELSE db[bk]]

\* `for (key, value) in defs.drain() { ... txn.put(...) }`
put_defs(db, defs) ==
    LET bkeys == {index_bkey(k[1], k[2]) : k \in DOMAIN defs}
        key_of(bk) == CHOOSE k \in DOMAIN defs : index_bkey(k[1], k[2]) = bk
    IN  [bk \in DOMAIN db \cup bkeys |->
            IF bk \in bkeys THEN index_bvalue(defs[key_of(bk)]) ELSE db[bk]]

\* pedia.txt files that pass 1 of a document may produce.
Idx == <<105>>
Foo == <<102>>
Frag == <<35, 120>>
TxtEmpty == << >>
TxtDefFoo == << Output(ENTRY_PREFIX \o Foo \o HTML_SUFFIX), IndexDef(Idx, Foo, Frag) >>
TxtRefFoo == << IndexRef(Idx, Foo, NeedsLoc + NeedsText) >>
PediaTxts == {TxtEmpty, TxtDefFoo, TxtRefFoo}

\* More pedia.txt files, for the index on its own: the same key defined in
\* another entry, defined twice, given text forms only, referenced before it
\* was ever defined.
Bar == <<98>>
Never == <<110>>
Frag2 == <<35, 121>>
TexFoo == <<92, 102>>
PlainFoo == <<70>>
TxtDefFooInBar ==
    << Output(ENTRY_PREFIX \o Bar \o HTML_SUFFIX), IndexDef(Idx, Foo, Frag2) >>
TxtDefTwice == TxtDefFoo \o TxtDefFooInBar
TxtDefNoOutput == << IndexDef(Idx, Foo, Frag) >>
TxtTextFoo == << IndexText(Idx, Foo, TexFoo, PlainFoo) >>
TxtDefTextFoo == TxtDefFoo \o TxtTextFoo
TxtDefEmptyTex == TxtDefFoo \o << IndexText(Idx, Foo, << >>, PlainFoo) >>
TxtRefNever == << IndexRef(Idx, Never, NeedsLoc) >>
TxtDefThenRef == << Output(ENTRY_PREFIX \o Bar \o HTML_SUFFIX),
                    IndexDef(Idx, Never, Frag) >> \o TxtRefNever
TxtRefTwo == << IndexRef(Idx, Foo, NeedsText),
                IndexRef(Idx, Never, NeedsLoc + NeedsText) >>
\* A reference above the definition of its key.
TxtRefThenDef == TxtRefNever \o << Output(ENTRY_PREFIX \o Bar \o HTML_SUFFIX),
                                  IndexDef(Idx, Never, Frag) >>
\* Output names that are not entry-<stem>.html: the suffix or the prefix is
\* missing.
TxtDefNoSuffix == << Output(ENTRY_PREFIX \o Bar), IndexDef(Idx, Bar, Frag) >>
TxtDefNoPrefix == << Output(Bar \o HTML_SUFFIX), IndexDef(Idx, Bar, Frag2) >>
IndexTxts ==
    PediaTxts \cup {TxtDefFooInBar, TxtDefTwice, TxtDefNoOutput, TxtTextFoo,
                    TxtDefTextFoo, TxtDefEmptyTex, TxtRefNever, TxtDefThenRef,
                    TxtRefTwo, TxtDefNoSuffix, TxtDefNoPrefix, TxtRefThenDef}

\* What the index store does to one request: nothing wrong, or the call that
\* fails (each is an `expect` of the blocking task).
DbFaults == {"none", "open db", "rw txn", "put", "commit txn"}

(***************************************************************************)
(* State.                                                                  *)
(***************************************************************************)
VARIABLES
    \* AssetState (behind NexusState.assets) and the LMDB "index" database.
    cur_assets, cur_seqnum, cur_bucket_key, next_proposed_seqnum, index_db,
    \* What the Nexus' clients have observed: the outcome of the last request
    \* and the history the properties speak of.
    lastOp, handed, responded, accepted, unsolicited, okInputs, pass1Failed,
    \* The index as the committed requests staged it: every (index, entry,
    \* stem) that an IndexDef line defined under a non-empty current_entry,
    \* and the IndexValue last staged for each (index, entry).
    everDefined, indexed,
    \* Compile jobs: the position of do_compile, the /pass1 response, the
    \* output directory of pass 2, the `assets` and `htmls` still to upload,
    \* and the deliveries of the job so far.
    pc, resp, out_dir, assets, htmls, runs,
    \* The worker process that runs each job, and whether a shared-asset
    \* upload of the job's current run has failed.
    proc, assetPutFailed,
    \* What the job's current run has done so far: one event per engine run,
    \* request and upload, with its outcome.
    trail,
    \* The buckets ttpedia-sharedassets and ttpedia-html; the
    \* acknowledgments the Nexus received from workers, as (seq_num, job);
    \* and the shared-asset files of the run whose acknowledgment is in force.
    sharedassets, html, acks, ackFiles,
    \* The /pass1 calls in flight in the Nexus, step by step, and the holder
    \* of the asset-state mutex.
    mutex, calls,
    \* One index value on its way through the write path and the read path.
    codec,
    \* The front door: the jobs pushed to the queue, and the last /submit call.
    queue, submitted,
    \* The order of events in the Nexus: the /assets_uploaded and GET /asset
    \* requests it processed, each with the /pass1 calls that held the guard
    \* at that time, and the sequence numbers of the /pass1 calls in the order
    \* their index transactions committed.
    served, commits,
    \* The /assets_uploaded and GET /asset requests as tasks of the runtime:
    \* the position of each in its handler.
    side

nexusVars == <<cur_assets, cur_seqnum, cur_bucket_key, next_proposed_seqnum, index_db>>
obsVars == <<lastOp, handed, responded, accepted, unsolicited, okInputs,
             pass1Failed, everDefined, indexed>>
jobVars == <<pc, resp, out_dir, assets, htmls, runs, proc, assetPutFailed, trail>>
bucketVars == <<sharedassets, html, acks, ackFiles>>
lockVars == <<mutex, calls>>
frontVars == <<queue, submitted>>
orderVars == <<served, commits, side>>
vars == <<nexusVars, obsVars, jobVars, bucketVars, lockVars, codec, frontVars, orderVars>>

Range(f) == {f[i] : i \in DOMAIN f}

(***************************************************************************)
(* POST /pass1                                                             *)
(***************************************************************************)
\* doc_id and job_id are carried by the request and never read by the handler.
NexusPostPass1Request(assets_json, pedia_txt) ==
    [assets_json |-> assets_json, pedia_txt |-> pedia_txt]

NexusPostPass1Response(assets_json, rrtex, preserve) ==
    [status |-> "ok", assets_json |-> assets_json,
     resolved_reference_tex |-> rrtex, preserve_assets |-> preserve]

\* Variant: the response is serialized before the merge.
pass2_assets_json_premerge(before, merged) == save(before)

\* `assets.cur_assets.save(&mut pass2_assets)`, after the merge: `before` and
\* `merged` are cur_assets before and after add_from_saved.
pass2_assets_json(before, merged) == save(merged)

\* Variants of the assignment: the counter is left alone; it skips a number.
propose_seqnum_stale(next) == [preserve_assets |-> Some(next), next |-> next]
propose_seqnum_skip(next) == [preserve_assets |-> Some(next), next |-> next + 2]

\* `if true { preserve_assets = Some(next); next += 1 }`: the number given to
\* this request and the counter afterwards.
propose_seqnum(next) == [preserve_assets |-> Some(next), next |-> next + 1]

\* The blocking task: Ok(rrtex, db') when the transaction commits, the
\* failing call otherwise (the transaction is dropped, nothing is written).
\* Variant: the staged values are in the store when the references are
\* resolved.
index_txn_staged_first(db, pedia_txt, fault) ==
    LET staged == process_lines(db, LoopInit, pedia_txt).defs
        st == process_lines(put_defs(db, staged), LoopInit, pedia_txt)
    IN  IF fault = "none"
        THEN [ok |-> TRUE, rrtex |-> st.rrtex, db |-> put_defs(db, st.defs),
              panic |-> ""]
        ELSE [ok |-> FALSE, rrtex |-> << >>, db |-> db, panic |-> fault]

index_txn(db, pedia_txt, fault) ==
    LET st == process_lines(db, LoopInit, pedia_txt)
    IN  IF fault = "none"
        THEN [ok |-> TRUE, rrtex |-> st.rrtex, db |-> put_defs(db, st.defs),
              panic |-> ""]
        ELSE [ok |-> FALSE, rrtex |-> << >>, db |-> db, panic |-> fault]

\* A fault the request can meet: `put` is only called for a staged key.
fault_possible(db, pedia_txt, fault) ==
    fault = "put" => DOMAIN process_lines(db, LoopInit, pedia_txt).defs # {}

\* What the client of a request sees: the response, or the handler's panic
\* (the connection is dropped without a response).
\* `branch` tells which arm of its `if` /assets_uploaded took.
Panicked(kind, msg) ==
    [kind |-> kind, ok |-> FALSE, panic |-> msg, resp |-> None, branch |-> ""]
Responded(kind, body, branch) ==
    [kind |-> kind, ok |-> TRUE, panic |-> "", resp |-> Some(body), branch |-> branch]

\* current_entry when line i of pedia.txt is read: the stem of the last
\* Output line above it.
CurrentEntryAt(lines, i) ==
    LET outs == {k \in 1..(i - 1) : lines[k].kind = "Output"}
    IN  IF outs = {} THEN << >> ELSE entry_stem(lines[Max(outs)].name)

\* The (index, entry, stem) of the IndexDef lines read under a non-empty
\* current_entry.
IndexDefsOf(lines) ==
    {<<lines[i].index, lines[i].entry, CurrentEntryAt(lines, i)>> :
        i \in {k \in 1..Len(lines) :
                 lines[k].kind = "IndexDef" /\ CurrentEntryAt(lines, k) # << >>}}

\* `indexed` after a request that staged `defs` has committed.
StagedOver(old, defs) ==
    [k \in DOMAIN old \cup DOMAIN defs |->
        IF k \in DOMAIN defs THEN defs[k] ELSE old[k]]

post_pass1_handler(req, fault) ==
    /\ next_proposed_seqnum <= MaxSeq
    /\ fault_possible(index_db, req.pedia_txt, fault)
    /\ UNCHANGED <<cur_seqnum, cur_bucket_key, accepted, unsolicited>>
    /\ IF ~add_from_saved_ok(cur_assets, req.assets_json)
       THEN \* .expect("parse and no conflicts")
            /\ cur_assets' \in add_from_saved_results(cur_assets, req.assets_json)
            /\ lastOp' = Panicked("pass1", "parse and no conflicts")
            /\ pass1Failed' = TRUE
            /\ UNCHANGED <<next_proposed_seqnum, index_db, handed, responded, okInputs,
                           everDefined, indexed>>
       ELSE LET merged == CHOOSE a \in add_from_saved_results(cur_assets,
                                                              req.assets_json) : TRUE
                pass2_assets == pass2_assets_json(cur_assets, merged)
                seq == propose_seqnum(next_proposed_seqnum)
                txn == index_txn(index_db, req.pedia_txt, fault)
            IN  /\ cur_assets' = merged
                /\ next_proposed_seqnum' = seq.next
                /\ handed' = handed \o seq.preserve_assets
                /\ index_db' = txn.db
                /\ IF txn.ok
                   THEN /\ lastOp' = Responded("pass1",
                                NexusPostPass1Response(pass2_assets, txn.rrtex,
                                                       seq.preserve_assets), "")
                        /\ responded' = responded \o seq.preserve_assets
                        /\ okInputs' = okInputs \cup {req.assets_json}
                        /\ everDefined' = everDefined \cup IndexDefsOf(req.pedia_txt)
                        /\ indexed' = StagedOver(indexed,
                               process_lines(index_db, LoopInit, req.pedia_txt).defs)
                        /\ UNCHANGED pass1Failed
                   ELSE /\ lastOp' = Panicked("pass1", txn.panic)
                        /\ pass1Failed' = TRUE
                        /\ UNCHANGED <<responded, okInputs, everDefined, indexed>>

(***************************************************************************)
(* POST /assets_uploaded                                                   *)
(***************************************************************************)
NexusPostAssetsUploadedRequest(seq_num, bucket_key) ==
    [seq_num |-> seq_num, bucket_key |-> bucket_key]

NexusPostAssetsUploadedResponse == [empty |-> TRUE]

\* Variants of the comparison: any different number wins; an equal one wins too.
supersedes_any(seq_num, cur) == seq_num # cur
supersedes_or_equal(seq_num, cur) == seq_num >= cur

\* `if req.seq_num > assets.cur_seqnum`
supersedes(seq_num, cur) == seq_num > cur

post_assets_uploaded_handler(req) ==
    /\ lastOp' = Responded("assets_uploaded", NexusPostAssetsUploadedResponse,
                            IF supersedes(req.seq_num, cur_seqnum)
                            THEN "superseding" ELSE "late")
    /\ unsolicited' = (unsolicited \/ req.seq_num \notin Range(handed))
    /\ IF supersedes(req.seq_num, cur_seqnum)
       THEN /\ cur_bucket_key' = req.bucket_key
            /\ cur_seqnum' = req.seq_num
            /\ accepted' = accepted \cup {req.seq_num}
       ELSE UNCHANGED <<cur_bucket_key, cur_seqnum, accepted>>
    /\ UNCHANGED <<cur_assets, next_proposed_seqnum, index_db, handed, responded,
                   okInputs, pass1Failed, everDefined, indexed>>

(***************************************************************************)
(* The Nexus on its own: any client may send any request.                  *)
(***************************************************************************)
NexusInit ==
    /\ cur_assets = AssetSpecification_default
    /\ cur_seqnum = 0
    /\ cur_bucket_key = FIXME_KEY
    /\ next_proposed_seqnum = 1
    /\ index_db = << >>
    /\ lastOp = [kind |-> "none", ok |-> TRUE, panic |-> "", resp |-> None,
                 branch |-> ""]
    /\ handed = << >>
    /\ responded = << >>
    /\ accepted = {}
    /\ unsolicited = FALSE
    /\ okInputs = {}
    /\ pass1Failed = FALSE
    /\ everDefined = {}
    /\ indexed = << >>

\* The worker processes, and the process of a job no worker has fetched yet.
Procs == {"w1", "w2"}
NoProc == "none"

\* No job delivered yet, empty buckets.
WorkerInit ==
    /\ pc = [j \in JobIds |-> "queued"]
    /\ resp = [j \in JobIds |-> None]
    /\ out_dir = [j \in JobIds |-> {}]
    /\ assets = [j \in JobIds |-> {}]
    /\ htmls = [j \in JobIds |-> {}]
    /\ runs = [j \in JobIds |-> 0]
    /\ proc = [j \in JobIds |-> NoProc]
    /\ assetPutFailed = [j \in JobIds |-> FALSE]
    /\ trail = [j \in JobIds |-> << >>]
    /\ sharedassets = {}
    /\ html = {}
    /\ acks = {}
    /\ ackFiles = {}

\* The /pass1 calls a client may have in flight at once; the mutex is free
\* and no call has arrived.
CallIds == {"c1", "c2"}
Free == {}
NoCall ==
    [pc |-> "idle", req |-> None, assets_json |-> None,
     preserve_assets |-> None, rrtex |-> None]
LockInit ==
    /\ mutex = Free
    /\ calls = [c \in CallIds |-> NoCall]

\* No /submit call yet, nothing pushed to the queue.
FrontInit ==
    /\ queue = << >>
    /\ submitted = [n |-> 0, doc_id |-> "", response |-> None]

\* The handlers besides /pass1 that take the asset-state lock.
SideIds == {"assets_uploaded", "get_asset"}

\* No request processed, no transaction committed.
OrderInit ==
    /\ served = << >>
    /\ commits = << >>
    /\ side = [k \in SideIds |-> "idle"]

\* No index value under way.
CodecIdle == [fields |-> << >>, stored |-> None, read |-> None]

Init ==
    /\ NexusInit
    /\ WorkerInit
    /\ LockInit
    /\ codec = CodecIdle
    /\ FrontInit
    /\ OrderInit

AnyPass1 ==
    \E assets_json \in AssetDocs, pedia_txt \in PediaTxts, fault \in DbFaults :
        /\ post_pass1_handler(NexusPostPass1Request(assets_json, pedia_txt), fault)
        /\ UNCHANGED <<jobVars, bucketVars, lockVars, codec, frontVars, orderVars>>

AnyAssetsUploaded ==
    \E seq_num \in AckSeqNums, bucket_key \in BucketKeys :
        /\ post_assets_uploaded_handler(
               NexusPostAssetsUploadedRequest(seq_num, bucket_key))
        /\ UNCHANGED <<jobVars, bucketVars, lockVars, codec, frontVars, orderVars>>

NexusNext == AnyPass1 \/ AnyAssetsUploaded

NexusSpec == Init /\ [][NexusNext]_vars

(***************************************************************************)
(* The index on its own: /pass1 requests with any of the pedia.txt files. *)
(***************************************************************************)
IndexPass1 ==
    \E pedia_txt \in IndexTxts, fault \in DbFaults :
        /\ post_pass1_handler(NexusPostPass1Request(DocA, pedia_txt), fault)
        /\ UNCHANGED <<jobVars, bucketVars, lockVars, codec, frontVars, orderVars>>

IndexNext == IndexPass1

IndexSpec == Init /\ [][IndexNext]_vars

(***************************************************************************)
(* POST /pass1 step by step, with several calls in flight: `mutex` is the *)
(* set of calls holding a guard of NexusState.assets.                     *)
(***************************************************************************)
LockRequests ==
    {NexusPostPass1Request(DocA, TxtDefFoo), NexusPostPass1Request(DocB, TxtRefFoo),
     NexusPostPass1Request(DocC, TxtEmpty), NexusPostPass1Request(MalformedJson, TxtEmpty)}

\* The positions of a call between `lock().await` returning and the end of
\* the handler.
InHandler == {"assets", "index", "respond"}

\* Variant: the mutex gives a guard to every caller.
try_lock_always(m) == TRUE

\* `state.assets.lock().await` completes only when no guard is alive.
try_lock(m) == m = Free

\* Variant: the guard of a handler that panicked is never dropped.
guard_kept_after_panic(m, c) == m

\* A panic unwinds the handler and drops its locals, the guard among them.
guard_after_panic(m, c) == m \ {c}

\* Variant: the guard is dropped once the sequence number is assigned.
guard_dropped_after_assets(m, c) == m \ {c}

\* `let mut assets = ...` lives to the end of the function: the guard is
\* still held when the blocking task is spawned and awaited.
guard_after_assets(m, c) == m

\* The request arrives and the handler starts: it waits for the lock.
Arrive(c) ==
    /\ calls[c].pc = "idle"
    /\ \E req \in LockRequests :
        calls' = [calls EXCEPT ![c] = [NoCall EXCEPT !.pc = "lock", !.req = Some(req)]]
    /\ UNCHANGED <<mutex, nexusVars, obsVars, jobVars, bucketVars, codec, frontVars, orderVars>>

\* `let mut assets = state.assets.lock().await;`
Acquire(c) ==
    /\ calls[c].pc = "lock"
    /\ try_lock(mutex)
    /\ mutex' = mutex \cup {c}
    /\ calls' = [calls EXCEPT ![c].pc = "assets"]
    /\ UNCHANGED <<nexusVars, obsVars, jobVars, bucketVars, codec, frontVars, orderVars>>

\* The merge, the serialization and the sequence number; a panic of
\* `expect` drops the guard.
MergeAssets(c) ==
    /\ calls[c].pc = "assets"
    /\ LET req == calls[c].req[1]
       IN  IF ~add_from_saved_ok(cur_assets, req.assets_json)
           THEN /\ cur_assets' \in add_from_saved_results(cur_assets, req.assets_json)
                /\ calls' = [calls EXCEPT ![c].pc = "panicked"]
                /\ mutex' = guard_after_panic(mutex, c)
                /\ UNCHANGED next_proposed_seqnum
           ELSE LET merged == CHOOSE a \in add_from_saved_results(cur_assets,
                                                                  req.assets_json) : TRUE
                    seq == propose_seqnum(next_proposed_seqnum)
                IN  /\ cur_assets' = merged
                    /\ next_proposed_seqnum' = seq.next
                    /\ calls' = [calls EXCEPT
                            ![c].pc = "index",
                            ![c].assets_json = Some(pass2_assets_json(cur_assets, merged)),
                            ![c].preserve_assets = seq.preserve_assets]
                    /\ mutex' = guard_after_assets(mutex, c)
    /\ UNCHANGED <<cur_seqnum, cur_bucket_key, index_db, obsVars, jobVars,
                   bucketVars, codec, frontVars, orderVars>>

\* The blocking task with the index transaction, awaited with the guard
\* alive; its panic is re-raised by `expect("join")` and drops the guard.
IndexTxn(c) ==
    /\ calls[c].pc = "index"
    /\ \E fault \in DbFaults :
        LET req == calls[c].req[1]
            txn == index_txn(index_db, req.pedia_txt, fault)
        IN  /\ fault_possible(index_db, req.pedia_txt, fault)
            /\ index_db' = txn.db
            /\ IF txn.ok
               THEN /\ calls' = [calls EXCEPT ![c].pc = "respond",
                                              ![c].rrtex = Some(txn.rrtex)]
                    /\ commits' = commits \o calls[c].preserve_assets
                    /\ UNCHANGED mutex
               ELSE /\ calls' = [calls EXCEPT ![c].pc = "panicked"]
                    /\ mutex' = guard_after_panic(mutex, c)
                    /\ UNCHANGED commits
    /\ UNCHANGED <<cur_assets, cur_seqnum, cur_bucket_key, next_proposed_seqnum,
                   obsVars, jobVars, bucketVars, codec, frontVars, served, side>>

\* `Json(NexusPostPass1Response { ... })`; the guard is dropped when the
\* handler returns.
Respond(c) ==
    /\ calls[c].pc = "respond"
    /\ calls' = [calls EXCEPT ![c].pc = "finished"]
    /\ mutex' = mutex \ {c}
    /\ UNCHANGED <<nexusVars, obsVars, jobVars, bucketVars, codec, frontVars, orderVars>>

\* The /pass1 calls whose guard is alive.
GuardHolders == {c \in CallIds : calls[c].pc \in InHandler}

\* GET /asset/{key}: the redirect to the current generation.
public_data_url == "TTPEDIA_PUBLIC_DATA_URL"
get_asset_handler(key) ==
    /\ lastOp' = Responded("get_asset",
                    [location |-> <<public_data_url, "sharedassets", cur_bucket_key, key>>],
                    "")
    /\ UNCHANGED <<cur_assets, cur_seqnum, cur_bucket_key, next_proposed_seqnum, index_db,
                   handed, responded, accepted, unsolicited, okInputs, pass1Failed,
                   everDefined, indexed>>

\* A worker's /assets_uploaded while /pass1 calls are in flight:
\* `state.assets.lock().await`, then the handler body, which has no await.
LockAssetsUploaded ==
    /\ Len(served) < MaxServed
    /\ try_lock(mutex)
    /\ \E seq_num \in 1..2 :
        post_assets_uploaded_handler(NexusPostAssetsUploadedRequest(seq_num, "j1"))
    /\ served' = Append(served, [kind |-> "assets_uploaded", during |-> GuardHolders])
    /\ UNCHANGED <<jobVars, bucketVars, lockVars, codec, frontVars, commits, side>>

\* A reader's GET /asset while /pass1 calls are in flight.
LockGetAsset ==
    /\ Len(served) < MaxServed
    /\ try_lock(mutex)
    /\ get_asset_handler("tdux.css")
    /\ served' = Append(served, [kind |-> "get_asset", during |-> GuardHolders])
    /\ UNCHANGED <<jobVars, bucketVars, lockVars, codec, frontVars, commits, side>>

LockNext ==
    \/ \E c \in CallIds :
        \/ Arrive(c)
        \/ Acquire(c)
        \/ MergeAssets(c)
        \/ IndexTxn(c)
        \/ Respond(c)
    \/ LockAssetsUploaded
    \/ LockGetAsset

LockSpec == Init /\ [][LockNext]_vars

(***************************************************************************)
(* The value encoding on its own: four fields written as the put loop     *)
(* writes them and read back as the IndexRef arm reads them.              *)
(***************************************************************************)
\* The fields: every byte string up to MaxFieldLen over a letter and 0x00.
FieldBytes == {NUL, 97}
FieldStrings == UNION {[1..n -> FieldBytes] : n \in 0..MaxFieldLen}
FieldTuples == [1..4 -> FieldStrings]

CodecInit ==
    /\ NexusInit
    /\ WorkerInit
    /\ LockInit
    /\ codec \in {[fields |-> fs, stored |-> None, read |-> None] : fs \in FieldTuples}
    /\ FrontInit
    /\ OrderInit

\* bvalue as the put loop builds it from an IndexValue.
CodecWrite ==
    /\ codec.stored = None
    /\ codec' = [codec EXCEPT !.stored =
            Some(index_bvalue([entry |-> Some(codec.fields[1]),
                               fragment |-> Some(codec.fields[2]),
                               atplain |-> Some(codec.fields[3]),
                               tex |-> Some(codec.fields[4])]))]
    /\ UNCHANGED <<nexusVars, obsVars, jobVars, bucketVars, lockVars, frontVars, orderVars>>

\* bvalue.split(|b| *b == 0) and the four calls of fields.next(), then what
\* is left of the iterator.
CodecRead ==
    /\ codec.stored # None /\ codec.read = None
    /\ LET fields == split_nul(codec.stored[1])
       IN  codec' = [codec EXCEPT !.read =
                Some([slices |-> [i \in 1..4 |-> next_field(fields, i)],
                      left |-> Len(fields) - 4])]
    /\ UNCHANGED <<nexusVars, obsVars, jobVars, bucketVars, lockVars, frontVars, orderVars>>

CodecNext == CodecWrite \/ CodecRead

CodecSpec == CodecInit /\ [][CodecNext]_vars

(***************************************************************************)
(* The compiler worker: do_compile and CompileState.                       *)
(***************************************************************************)
\* The document of a job and what the engine makes of its content: pass 1's
\* assets.json and pedia.txt, pass 2's entry files.
doc_id(j) == IF j = "j1" THEN "d1" ELSE "d2"
job_assets_json(j) == IF j = "j1" THEN DocA ELSE DocB
job_pedia_txt(j) == IF j = "j1" THEN TxtDefFoo ELSE TxtRefFoo
job_entries(j) == IF j = "j1" THEN {"entry-foo.html"} ELSE {"entry-bar.html"}

\* str::ends_with / starts_with / strip_prefix on the file names of the model.
ends_with_css(name) == name \in {"tdux.css"}
ends_with_otf(name) == name \in {"font.otf"}
starts_with_entry(name) == name \in {"entry-foo.html", "entry-bar.html"}
strip_entry_prefix(name) == IF name = "entry-foo.html" THEN "foo.html" ELSE "bar.html"

\* Variant: the worker acknowledges the number after the one it was given.
preserve_of_next(r) ==
    IF is_some(r) /\ is_some(r[1].preserve_assets)
    THEN Some(r[1].preserve_assets[1] + 1)
    ELSE None

preserve_of(r) == IF is_some(r) THEN r[1].preserve_assets ELSE None

\* self.content(): the text of the job's document.
content(j) == IF j = "j1" THEN "text of d1" ELSE "text of d2"

\* `let rrtex = "";`
pass2_rrtex(r) == << >>

\* The primary input of pass 2: the format string and its two arguments.
pass2_input(r, text) ==
    << [part |-> "passonefalse", body |-> << >>],
       [part |-> "preamble", body |-> << >>],
       [part |-> "rrtex", body |-> pass2_rrtex(r)],
       [part |-> "content", body |-> text],
       [part |-> "postamble", body |-> << >>] >>

\* Variant: pass 2 always emits the shared assets.
html_emit_assets_always(r) == TRUE

\* `.html_emit_assets(resp.preserve_assets.is_some())`
html_emit_assets(r) == is_some(r.preserve_assets)

\* One event of a run.
Event(step, ok, info) == [step |-> step, ok |-> ok, info |-> info]

\* The files pass 2 leaves in out_dir: the entries, and the shared assets of
\* the merged specification when html_emit_assets is on.
pass2_out_dir(j, r) ==
    LET merged == MergeEntries(AssetSpecification_default, r.assets_json.entries)
        emit_assets == html_emit_assets(r)
    IN  job_entries(j)
        \cup (IF emit_assets THEN {p \in AssetPaths : merged[p] # NoAsset} ELSE {})

\* The scan of the output directory.
scan_assets(dir, preserve) ==
    {f \in dir : is_some(preserve) /\ (ends_with_otf(f) \/ ends_with_css(f))}
scan_htmls(dir, preserve) ==
    {f \in dir \ scan_assets(dir, preserve) : starts_with_entry(f)}

\* Where upload_to_bucket stands once `todo_htmls` remain to be uploaded.
after_notify(todo_htmls) == IF todo_htmls = {} THEN "done" ELSE "upload_htmls"

\* Variant: the HTML loop follows the assets loop without the notification.
after_assets_skip_notify(todo_assets, preserve, todo_htmls) ==
    IF todo_assets # {} THEN "upload_assets" ELSE after_notify(todo_htmls)

\* Where it stands once `todo_assets` remain to be uploaded.
after_assets(todo_assets, preserve, todo_htmls) ==
    IF todo_assets # {} THEN "upload_assets"
    ELSE IF is_some(preserve) THEN "notify"
    ELSE after_notify(todo_htmls)

\* Variant: a failed put_object_content is ignored and the loop goes on.
after_asset_put_ignoring_error(ok, todo_assets, preserve, todo_htmls) ==
    after_assets(todo_assets, preserve, todo_htmls)

\* `client.put_object_content(...).send().await.unwrap()` in the assets loop.
after_asset_put(ok, todo_assets, preserve, todo_htmls) ==
    IF ~ok THEN "failed" ELSE after_assets(todo_assets, preserve, todo_htmls)

\* Variant: a failed put of an entry is ignored and the loop goes on.
after_html_put_ignoring_error(ok, todo_htmls) == after_notify(todo_htmls)

\* `client.put_object_content(...).send().await.unwrap()` in the HTML loop.
after_html_put(ok, todo_htmls) == IF ~ok THEN "failed" ELSE after_notify(todo_htmls)

\* NUM_WORKERS: the jobs one worker process runs at a time.
NUM_WORKERS == 1

\* The jobs a process is running: fetched by it and not yet finished.
Running(p) == {j \in JobIds : proc[j] = p /\ pc[j] \notin {"queued", "done", "failed"}}

\* Variant: a process fetches a job however many it is running.
can_fetch_always(running) == TRUE

\* Worker::run with `.workers(NUM_WORKERS)`: a process fetches the next job
\* only while it runs fewer than NUM_WORKERS.
can_fetch(running) == running < NUM_WORKERS

\* The queue hands the job to a worker: do_compile starts with a new
\* CompileState.
Deliver(j) ==
    /\ pc[j] \in {"queued", "failed"}
    /\ runs[j] < MaxRuns
    /\ pc' = [pc EXCEPT ![j] = "pass1"]
    /\ runs' = [runs EXCEPT ![j] = @ + 1]
    /\ resp' = [resp EXCEPT ![j] = None]
    /\ out_dir' = [out_dir EXCEPT ![j] = {}]
    /\ assets' = [assets EXCEPT ![j] = {}]
    /\ htmls' = [htmls EXCEPT ![j] = {}]
    /\ \E p \in Procs :
        /\ can_fetch(Cardinality(Running(p)))
        /\ proc' = [proc EXCEPT ![j] = p]
    /\ assetPutFailed' = [assetPutFailed EXCEPT ![j] = FALSE]
    /\ trail' = [trail EXCEPT ![j] = << >>]
    /\ UNCHANGED <<nexusVars, obsVars, bucketVars, lockVars, codec, frontVars, orderVars>>

\* CompileState::pass1 in the blocking task.
Pass1(j) ==
    /\ pc[j] = "pass1"
    /\ \E engine_ok \in BOOLEAN :
        /\ pc' = [pc EXCEPT ![j] = IF engine_ok THEN "nexus1" ELSE "failed"]
        /\ trail' = [trail EXCEPT ![j] = Append(@, Event("pass1", engine_ok, << >>))]
    /\ UNCHANGED <<resp, out_dir, assets, htmls, runs, proc, assetPutFailed>>
    /\ UNCHANGED <<nexusVars, obsVars, bucketVars, lockVars, codec, frontVars, orderVars>>

\* Variant: do_compile goes on to pass 2 whatever nexus1 returned.
after_nexus1_ignoring_error(ok) == "pass2"

\* `state.nexus1(req).await?`: pass 2 comes next only when the round-trip
\* gave a response.
after_nexus1(ok) == IF ok THEN "pass2" ELSE "failed"

\* CompileState::nexus1: the request is lost, or the Nexus handles it and the
\* response arrives or not.
Nexus1(j) ==
    /\ pc[j] = "nexus1"
    /\ UNCHANGED <<out_dir, assets, htmls, runs, proc, assetPutFailed, bucketVars,
                   lockVars, codec, frontVars, orderVars>>
    /\ \/ /\ pc' = [pc EXCEPT ![j] = "failed"]
          /\ trail' = [trail EXCEPT ![j] = Append(@, Event("nexus1", FALSE, None))]
          /\ UNCHANGED <<resp, nexusVars, obsVars>>
       \/ \E fault \in DbFaults, received \in BOOLEAN :
            /\ post_pass1_handler(
                   NexusPostPass1Request(job_assets_json(j), job_pedia_txt(j)), fault)
            /\ pc' = [pc EXCEPT ![j] = after_nexus1(lastOp'.ok /\ received)]
            /\ IF lastOp'.ok /\ received
               THEN /\ resp' = [resp EXCEPT ![j] = lastOp'.resp]
                    /\ trail' = [trail EXCEPT ![j] =
                            Append(@, Event("nexus1", TRUE, lastOp'.resp))]
               ELSE /\ UNCHANGED resp
                    /\ trail' = [trail EXCEPT ![j] =
                            Append(@, Event("nexus1", FALSE, None))]

\* CompileState::pass2 in the blocking task.
Pass2(j) ==
    /\ pc[j] = "pass2"
    /\ \E engine_ok \in BOOLEAN :
        /\ IF engine_ok
           THEN /\ out_dir' = [out_dir EXCEPT ![j] = pass2_out_dir(j, resp[j][1])]
                /\ pc' = [pc EXCEPT ![j] = "scan"]
           ELSE /\ pc' = [pc EXCEPT ![j] = "failed"]
                /\ UNCHANGED out_dir
        /\ trail' = [trail EXCEPT ![j] = Append(@, Event("pass2", engine_ok,
                        [input |-> pass2_input(resp[j][1], content(j)),
                         emit_assets |-> html_emit_assets(resp[j][1])]))]
    /\ UNCHANGED <<resp, assets, htmls, runs, proc, assetPutFailed>>
    /\ UNCHANGED <<nexusVars, obsVars, bucketVars, lockVars, codec, frontVars, orderVars>>

\* upload_to_bucket, up to the end of the directory scan.
Scan(j) ==
    /\ pc[j] = "scan"
    /\ LET preserve == preserve_of(resp[j])
           found_assets == scan_assets(out_dir[j], preserve)
           found_htmls == scan_htmls(out_dir[j], preserve)
       IN  /\ assets' = [assets EXCEPT ![j] = found_assets]
           /\ htmls' = [htmls EXCEPT ![j] = found_htmls]
           /\ pc' = [pc EXCEPT ![j] = after_assets(found_assets, preserve, found_htmls)]
    /\ UNCHANGED <<resp, out_dir, runs, proc, assetPutFailed, trail>>
    /\ UNCHANGED <<nexusVars, obsVars, bucketVars, lockVars, codec, frontVars, orderVars>>

\* One iteration of `for asset_path in assets.drain(..)`.
UploadAsset(j) ==
    /\ pc[j] = "upload_assets"
    /\ \E f \in assets[j], ok \in BOOLEAN :
        LET rest == assets[j] \ {f}
        IN  /\ assets' = [assets EXCEPT ![j] = rest]
            /\ sharedassets' = IF ok THEN sharedassets \cup {<<j, f>>} ELSE sharedassets
            /\ pc' = [pc EXCEPT ![j] =
                        after_asset_put(ok, rest, preserve_of(resp[j]), htmls[j])]
            /\ assetPutFailed' = [assetPutFailed EXCEPT ![j] = @ \/ ~ok]
            /\ trail' = [trail EXCEPT ![j] = Append(@, Event("put_asset", ok, <<j, f>>))]
    /\ UNCHANGED <<resp, out_dir, htmls, runs, proc, html, acks, ackFiles>>
    /\ UNCHANGED <<nexusVars, obsVars, lockVars, codec, frontVars, orderVars>>

\* `if let Some(seq_num) = preserve_assets { ... }`: the request is lost, or
\* the Nexus handles it and the response arrives or not.
Notify(j) ==
    /\ pc[j] = "notify"
    /\ UNCHANGED <<resp, out_dir, assets, htmls, runs, proc, assetPutFailed,
                   sharedassets, html, lockVars, codec, frontVars, orderVars>>
    /\ \/ /\ pc' = [pc EXCEPT ![j] = "failed"]
          /\ trail' = [trail EXCEPT ![j] = Append(@, Event("assets_uploaded", FALSE,
                        NexusPostAssetsUploadedRequest(preserve_of(resp[j])[1], j)))]
          /\ UNCHANGED <<nexusVars, obsVars, acks, ackFiles>>
       \/ \E received \in BOOLEAN :
            LET seq_num == preserve_of(resp[j])[1]
            IN  /\ post_assets_uploaded_handler(
                       NexusPostAssetsUploadedRequest(seq_num, j))
                /\ trail' = [trail EXCEPT ![j] = Append(@, Event("assets_uploaded",
                                received, NexusPostAssetsUploadedRequest(seq_num, j)))]
                /\ acks' = acks \cup {<<seq_num, j>>}
                /\ ackFiles' = IF lastOp'.branch = "superseding"
                               THEN {f \in out_dir[j] : ends_with_otf(f) \/ ends_with_css(f)}
                               ELSE ackFiles
                /\ pc' = [pc EXCEPT ![j] =
                            IF received THEN after_notify(htmls[j]) ELSE "failed"]

\* One iteration of `for html_path in htmls.drain(..)`.
UploadHtml(j) ==
    /\ pc[j] = "upload_htmls"
    /\ \E f \in htmls[j], ok \in BOOLEAN :
        LET rest == htmls[j] \ {f}
        IN  /\ htmls' = [htmls EXCEPT ![j] = rest]
            /\ html' = IF ok THEN html \cup {<<doc_id(j), strip_entry_prefix(f)>>}
                       ELSE html
            /\ pc' = [pc EXCEPT ![j] = after_html_put(ok, rest)]
            /\ trail' = [trail EXCEPT ![j] =
                    Append(@, Event("put_html", ok, <<doc_id(j), strip_entry_prefix(f)>>))]
    /\ UNCHANGED <<resp, out_dir, assets, runs, proc, assetPutFailed, sharedassets,
                   acks, ackFiles>>
    /\ UNCHANGED <<nexusVars, obsVars, lockVars, codec, frontVars, orderVars>>

Next ==
    \E j \in JobIds :
        \/ Deliver(j)
        \/ Pass1(j)
        \/ Nexus1(j)
        \/ Pass2(j)
        \/ Scan(j)
        \/ UploadAsset(j)
        \/ Notify(j)
        \/ UploadHtml(j)

Spec == Init /\ [][Next]_vars

(***************************************************************************)
(* Properties of the Nexus under arbitrary clients (NexusSpec).            *)
(***************************************************************************)
AnyAssetsUploadedRequest ==
    {NexusPostAssetsUploadedRequest(n, k) : n \in AckSeqNums, k \in BucketKeys}
AnyPass1Request ==
    {NexusPostPass1Request(a, t) : a \in AssetDocs, t \in PediaTxts}

\* C1: under any sequence of /assets_uploaded calls, with any seq_num values
\* in any order, cur_seqnum never decreases from one state to the next and
\* always equals the largest seq_num of the calls accepted so far (0 when
\* none was accepted).
C1_SeqnumMonotoneMax ==
    /\ cur_seqnum = Max(accepted \cup {0})
    /\ [][/\ cur_seqnum' >= cur_seqnum
          /\ cur_seqnum' = Max(accepted' \cup {0})]_vars

\* Two calls were accepted and then a lower one arrived and was discarded.
C1_Witness ==
    /\ Cardinality(accepted) >= 2
    /\ lastOp.kind = "assets_uploaded"
    /\ lastOp.branch = "late"

\* C3: an /assets_uploaded request with seq_num <= cur_seqnum changes none of
\* cur_seqnum, cur_bucket_key, cur_assets, next_proposed_seqnum and the index
\* store, and is answered with the empty success response.
C3_LateAckNoOp ==
    [][\A req \in AnyAssetsUploadedRequest :
        (post_assets_uploaded_handler(req) /\ req.seq_num <= cur_seqnum)
        => /\ UNCHANGED <<cur_seqnum, cur_bucket_key, cur_assets,
                          next_proposed_seqnum, index_db>>
           /\ lastOp'.ok
           /\ lastOp'.resp = Some(NexusPostAssetsUploadedResponse)]_vars

\* A request was discarded while a generation was current and the index
\* store held an entry.
C3_Witness ==
    /\ lastOp.kind = "assets_uploaded"
    /\ lastOp.branch = "late"
    /\ cur_seqnum > 0
    /\ DOMAIN index_db # {}

\* C4 as stated: cur_seqnum < next_proposed_seqnum in every reachable state,
\* whatever seq_num values the /assets_uploaded requests carry.
C4_SeqnumBelowNext == cur_seqnum < next_proposed_seqnum

\* C4 amended: cur_seqnum < next_proposed_seqnum in every reachable state in
\* which every /assets_uploaded request so far carried a seq_num that /pass1
\* had assigned before.
C4_SeqnumBelowNextSolicited ==
    ~unsolicited => cur_seqnum < next_proposed_seqnum

\* Every number handed out has been acknowledged, none unsolicited.
C4_Witness ==
    /\ ~unsolicited
    /\ cur_seqnum >= 2
    /\ cur_seqnum = next_proposed_seqnum - 1

NoDuplicates(seq) == \A i, k \in 1..Len(seq) : seq[i] = seq[k] => i = k

C8_MergedAssets ==
    ~pass1Failed
    => /\ cur_assets = MergeAll(okInputs)
       /\ (lastOp.kind = "pass1"
           => lastOp.resp[1].assets_json = save(MergeAll(okInputs)))

\* Two different specifications have been merged.
C8_Witness ==
    /\ ~pass1Failed
    /\ Cardinality(okInputs) >= 2
    /\ lastOp.kind = "pass1"
    /\ \A p \in AssetPaths : cur_assets[p] # NoAsset

\* C9 as stated: a /pass1 request whose assets_json conflicts with cur_assets
\* fails and leaves cur_assets exactly as it was.
C9_ConflictLeavesAssets ==
    [][\A req \in AnyPass1Request, fault \in DbFaults :
        (post_pass1_handler(req, fault)
         /\ req.assets_json.wellformed
         /\ Conflicting(cur_assets, req.assets_json) # {})
        => /\ ~lastOp'.ok
           /\ cur_assets' = cur_assets]_vars

\* C10 as stated: a /pass1 request during which the index store fails (open,
\* begin, put or commit) fails and leaves cur_assets, next_proposed_seqnum,
\* cur_seqnum, cur_bucket_key and the index store as they were.
C10_IndexFaultNoStateChange ==
    [][\A req \in AnyPass1Request, fault \in DbFaults \ {"none"} :
        (post_pass1_handler(req, fault)
         /\ add_from_saved_ok(cur_assets, req.assets_json))
        => /\ ~lastOp'.ok
           /\ UNCHANGED nexusVars]_vars

(***************************************************************************)
(* Properties of the workers and the Nexus together (Spec).                *)
(***************************************************************************)
AckedSeqNums == {a[1] : a \in acks}

\* C2: once the Nexus has handled the acknowledgments of workers that were
\* handed different sequence numbers, cur_seqnum is the largest of these
\* numbers and cur_bucket_key is the job id submitted with it, in whatever
\* order the acknowledgments arrived: an acknowledgment for m arriving after
\* the one for n > m leaves both as n's acknowledgment set them.
C2_LastWriterWinsBySeqnum ==
    acks # {}
    => /\ cur_seqnum = Max(AckedSeqNums)
       /\ <<cur_seqnum, cur_bucket_key>> \in acks

\* The acknowledgment for the lower of two numbers arrived last.
C2_Witness ==
    /\ Cardinality(AckedSeqNums) >= 2
    /\ lastOp.kind = "assets_uploaded"
    /\ lastOp.branch = "late"
    /\ \E a \in acks : a[1] < cur_seqnum /\ a[2] # cur_bucket_key

\* C5: whenever cur_seqnum > 0, ttpedia-sharedassets holds, under the prefix
\* cur_bucket_key, every shared-asset file of the job run that sent the
\* acknowledgment in force.
C5_CurrentGenerationInBucket ==
    cur_seqnum > 0 => \A f \in ackFiles : <<cur_bucket_key, f>> \in sharedassets

\* A generation of two files is current.
C5_Witness ==
    /\ cur_seqnum > 0
    /\ Cardinality(ackFiles) >= 2

\* The step in which job j's /assets_uploaded call returns successfully.
NotifyReturns(j) == pc[j] = "notify" /\ pc'[j] \in {"upload_htmls", "done"}

\* C6 as stated: right after a worker's /assets_uploaded{n, k} call returns
\* successfully, cur_bucket_key = k.
C6_AckSetsBucketKey ==
    [][\A j \in JobIds : NotifyReturns(j) => cur_bucket_key' = j]_vars

\* C6 amended: right after a worker's /assets_uploaded{n, k} call returns
\* successfully, cur_bucket_key = k and cur_seqnum = n if n was greater than
\* cur_seqnum when the Nexus handled the call; otherwise (a higher number was
\* acknowledged before) cur_bucket_key and cur_seqnum are unchanged.
C6_AckSetsBucketKeyUnlessSuperseded ==
    [][\A j \in JobIds :
        NotifyReturns(j)
        => IF preserve_of(resp[j])[1] > cur_seqnum
           THEN cur_bucket_key' = j /\ cur_seqnum' = preserve_of(resp[j])[1]
           ELSE UNCHANGED <<cur_bucket_key, cur_seqnum>>]_vars

\* A worker's acknowledgment has just replaced another job's generation.
C6_Witness ==
    /\ lastOp.kind = "assets_uploaded"
    /\ lastOp.branch = "superseding"
    /\ Cardinality(AckedSeqNums) >= 2
    /\ \E j \in JobIds :
        /\ pc[j] \in {"upload_htmls", "done"}
        /\ cur_bucket_key = j
        /\ cur_seqnum = preserve_of(resp[j])[1]

(***************************************************************************)
(* Properties of the cross-reference index (IndexSpec).                    *)
(***************************************************************************)
\* A /pass1 step of IndexSpec with this pedia.txt that returned a response.
Pass1Committed(t) ==
    /\ \E fault \in DbFaults :
            post_pass1_handler(NexusPostPass1Request(DocA, t), fault)
    /\ lastOp'.ok

\* The IndexRef lines of a pedia.txt that carry a flag.
RefLines(t, bit) ==
    {i \in 1..Len(t) : t[i].kind = "IndexRef" /\ has_flag(t[i].flags, bit)}

BeginsWith(body, s) == Len(body) >= Len(s) /\ SubSeq(body, 1, Len(s)) = s

\* The response has a loc line for (index, entry) whose body begins with s.
HasLocLine(response, index, entry, s) ==
    \E l \in Range(response.resolved_reference_tex) :
        /\ l.form = "loc" /\ l.index = index /\ l.entry = entry
        /\ BeginsWith(l.body, s)

\* C11 as stated: once a committed request defined (index, entry) with an
\* IndexDef line under a non-empty current_entry s, every later request
\* with an IndexRef for (index, entry) with NeedsLoc gets a loc line whose
\* body begins with s, whatever was processed in between.
C11_LocBeginsWithAnyDefinedStem ==
    [][\A t \in IndexTxts : Pass1Committed(t) =>
        \A i \in RefLines(t, NeedsLoc), d \in everDefined :
            (d[1] = t[i].index /\ d[2] = t[i].entry)
                => HasLocLine(lastOp'.resp[1], d[1], d[2], d[3])]_vars

\* The stem under which (index, entry) was last staged: the current_entry of
\* the last IndexDef line for it in the most recent committed request that
\* staged it; empty when it was staged with IndexText lines only.
LastStagedStem(key) ==
    IF key \in DOMAIN indexed THEN unwrap_or_default(indexed[key].entry) ELSE << >>

\* C11, amended: a request with an IndexRef for (index, entry) with NeedsLoc
\* gets a loc line whose body begins with the stem under which the most
\* recent committed request that staged (index, entry) last defined it, and
\* with ENTRYREF when that request staged it with IndexText lines only or
\* under an empty current_entry; requests in between that do not stage
\* (index, entry) change nothing.
C11_LocBeginsWithLastStagedStem ==
    [][\A t \in IndexTxts : Pass1Committed(t) =>
        \A i \in RefLines(t, NeedsLoc) :
            LET key == <<t[i].index, t[i].entry>>
                s == LastStagedStem(key)
            IN  key \in DOMAIN indexed =>
                    HasLocLine(lastOp'.resp[1], key[1], key[2],
                               IF s # << >> THEN s ELSE ENTRYREF)]_vars

\* A reference was resolved to the entry that redefined the key, after
\* three committed requests and two definitions under different stems.
C11_Witness ==
    /\ lastOp.kind = "pass1" /\ lastOp.ok
    /\ Len(responded) >= 3
    /\ {d \in everDefined : d[1] = Idx /\ d[2] = Foo} = {<<Idx, Foo, Foo>>, <<Idx, Foo, Bar>>}
    /\ HasLocLine(lastOp.resp[1], Idx, Foo, Bar \o Frag2)

\* C13: an IndexRef with NeedsLoc for an (index, entry) that has no value in
\* the index store yields the loc line with body exactly ENTRYREF, and the
\* request does not fail (it responds whenever the store has no fault).
C13_UnknownRefYieldsENTRYREF ==
    [][\A t \in IndexTxts, fault \in DbFaults :
        post_pass1_handler(NexusPostPass1Request(DocA, t), fault) =>
            \A i \in RefLines(t, NeedsLoc) :
                (index_bkey(t[i].index, t[i].entry) \notin DOMAIN index_db)
                    => /\ fault = "none" => lastOp'.ok
                       /\ lastOp'.ok =>
                            \E l \in Range(lastOp'.resp[1].resolved_reference_tex) :
                                l = RRLine("loc", t[i].index, t[i].entry, ENTRYREF)]_vars

C13_Witness ==
    /\ lastOp.kind = "pass1" /\ lastOp.ok
    /\ index_bkey(Idx, Never) \notin DOMAIN index_db
    /\ index_bkey(Idx, Foo) \in DOMAIN index_db
    /\ lastOp.resp[1].resolved_reference_tex = << RRLine("loc", Idx, Never, ENTRYREF) >>

\* The stored text field of a key, replaced by the entry name when it is
\* missing or empty.
StoredOrName(key, field) ==
    LET stored == IF key \in DOMAIN indexed
                  THEN unwrap_or_default(indexed[key][field]) ELSE << >>
    IN  IF stored = << >> THEN key[2] ELSE stored

\* The text lines a pedia.txt must be answered with, in order.
RECURSIVE ExpectedText(_)
ExpectedText(lines) ==
    IF lines = << >> THEN << >>
    ELSE LET l == Head(lines)
             key == <<l.index, l.entry>>
         IN  (IF l.kind = "IndexRef" /\ has_flag(l.flags, NeedsText)
              THEN << RRLine("text tex", l.index, l.entry, StoredOrName(key, "tex")),
                      RRLine("text plain", l.index, l.entry,
                             StoredOrName(key, "atplain")) >>
              ELSE << >>)
             \o ExpectedText(Tail(lines))

IsTextLine(l) == l.form \in {"text tex", "text plain"}

\* C14: every IndexRef with NeedsText yields exactly two lines, the
\* 'text tex' line then the 'text plain' line, whose bodies are the stored
\* tex and plain fields, each replaced by the referenced entry name when the
\* stored field is missing or empty (so a key defined by IndexDef only
\* resolves both to the entry name).
C14_TextLines ==
    [][\A t \in IndexTxts : Pass1Committed(t) =>
        SelectSeq(lastOp'.resp[1].resolved_reference_tex, IsTextLine)
            = ExpectedText(t)]_vars

\* A key defined by IndexDef only was resolved to the entry name, and in an
\* earlier life of the store a reference was answered with stored text.
C14_Witness ==
    /\ lastOp.kind = "pass1" /\ lastOp.ok
    /\ <<Idx, Foo>> \in DOMAIN indexed
    /\ indexed[<<Idx, Foo>>].tex = None
    /\ indexed[<<Idx, Foo>>].entry = Some(Bar)
    /\ lastOp.resp[1].resolved_reference_tex
         = << RRLine("text tex", Idx, Foo, Foo), RRLine("text plain", Idx, Foo, Foo),
              RRLine("loc", Idx, Never, ENTRYREF),
              RRLine("text tex", Idx, Never, Never),
              RRLine("text plain", Idx, Never, Never) >>

(***************************************************************************)
(* Properties of the value encoding (CodecSpec).                           *)
(***************************************************************************)
NoNul(b) == \A i \in 1..Len(b) : b[i] # NUL

\* C12: for any four fields none of which contains 0x00, writing them as
\* entry 0x00 fragment 0x00 plain 0x00 tex and splitting the stored value on
\* 0x00 gives back the same four fields in the same order (and nothing
\* more).
C12_ValueRoundTrip ==
    (codec.read # None /\ \A i \in 1..4 : NoNul(codec.fields[i]))
        => /\ \A i \in 1..4 : codec.read[1].slices[i] = Some(codec.fields[i])
           /\ codec.read[1].left = 0

\* Four fields of different lengths, one of them empty, came back.
C12_Witness ==
    /\ codec.read # None
    /\ codec.fields = <<<<97>>, << >>, <<97, 97>>, <<97>>>>
    /\ codec.read[1].slices = <<Some(<<97>>), Some(<< >>), Some(<<97, 97>>), Some(<<97>>)>>

(***************************************************************************)
(* Properties of concurrent /pass1 calls (LockSpec).                       *)
(***************************************************************************)
\* What a call that has ended gave its client: the response, or nothing
\* when the handler panicked.
CallOut(c) ==
    IF calls[c].pc = "finished"
    THEN Some(NexusPostPass1Response(calls[c].assets_json[1], calls[c].rrtex[1],
                                     calls[c].preserve_assets))
    ELSE None

\* The handler run on its own from the state `st`: every state it can end
\* in, with what the client gets.
SeqOutcomes(st, req) ==
    IF ~add_from_saved_ok(st.cur_assets, req.assets_json)
    THEN {[st |-> [st EXCEPT !.cur_assets = a], out |-> None] :
            a \in add_from_saved_results(st.cur_assets, req.assets_json)}
    ELSE LET merged == CHOOSE a \in add_from_saved_results(st.cur_assets,
                                                           req.assets_json) : TRUE
             seq == propose_seqnum(st.next)
             st1 == [cur_assets |-> merged, next |-> seq.next, db |-> st.db]
         IN  {LET txn == index_txn(st.db, req.pedia_txt, fault)
              IN  IF txn.ok
                  THEN [st |-> [st1 EXCEPT !.db = txn.db],
                        out |-> Some(NexusPostPass1Response(
                                    pass2_assets_json(st.cur_assets, merged),
                                    txn.rrtex, seq.preserve_assets))]
                  ELSE [st |-> st1, out |-> None] :
              fault \in {f \in DbFaults : fault_possible(st.db, req.pedia_txt, f)}}

\* The calls of `order` run one after the other from `st`.
RECURSIVE SeqRuns(_, _)
SeqRuns(st, order) ==
    IF order = << >> THEN {[st |-> st, outs |-> << >>]}
    ELSE UNION {{[st |-> r2.st, outs |-> <<r.out>> \o r2.outs] :
                    r2 \in SeqRuns(r.st, Tail(order))} :
                r \in SeqOutcomes(st, calls[Head(order)].req[1])}

Orders(S) ==
    {o \in [1..Cardinality(S) -> S] : \A i, k \in DOMAIN o : o[i] = o[k] => i = k}

EndedCalls == {c \in CallIds : calls[c].pc \in {"finished", "panicked"}}

StepOf(p) ==
    CASE p = "queued" -> "none"
      [] p = "pass1" -> "pass 1"
      [] p = "nexus1" -> "nexus round-trip"
      [] p = "pass2" -> "pass 2"
      [] p \in {"scan", "upload_assets", "notify", "upload_htmls"} -> "upload"
      [] p = "done" -> "succeeded"
      [] p = "failed" -> "failed"

\* The order of the steps: the next one after a success, the end of the run
\* after a failure, and pass 1 of a new run after a delivery.
StepOrder ==
    {<<"none", "pass 1">>, <<"failed", "pass 1">>,
     <<"pass 1", "nexus round-trip">>, <<"nexus round-trip", "pass 2">>,
     <<"pass 2", "upload">>, <<"upload", "upload">>, <<"upload", "succeeded">>}
    \cup {<<st, "failed">> : st \in {"pass 1", "nexus round-trip", "pass 2", "upload"}}

\* The shared-asset files of the job's current run.
RunAssetFiles(j) == {f \in out_dir[j] : ends_with_otf(f) \/ ends_with_css(f)}

\* C16: within one job the steps happen strictly in the order pass 1, Nexus
\* round-trip, pass 2, upload: a job is at one step at a time, moves only to
\* the next step or to the end of the run, is in pass 2 only with the
\* response of the round-trip, and in the upload only with the output
\* directory of pass 2.
C16_StepsInOrder ==
    /\ [](\A j \in JobIds :
        /\ StepOf(pc[j]) \in {"none", "pass 1", "nexus round-trip"} => resp[j] = None
        /\ StepOf(pc[j]) \in {"pass 2", "upload", "succeeded"} => is_some(resp[j])
        /\ StepOf(pc[j]) \in {"none", "pass 1", "nexus round-trip", "pass 2"}
                => out_dir[j] = {}
        /\ StepOf(pc[j]) \in {"upload", "succeeded"} => job_entries(j) \subseteq out_dir[j])
    /\ [][\A j \in JobIds :
            pc'[j] # pc[j] => <<StepOf(pc[j]), StepOf(pc'[j])>> \in StepOrder]_vars

\* A job went through all four steps on its second delivery.
C16_Witness ==
    \E j \in JobIds :
        /\ pc[j] = "done" /\ runs[j] = 2
        /\ is_some(resp[j]) /\ job_entries(j) \subseteq out_dir[j]

\* The jobs of a process whose engine is running, and those between the
\* start of pass 1 and the end of pass 2.
InEngine(p) == {j \in JobIds : proc[j] = p /\ pc[j] \in {"pass1", "pass2"}}
InCompile(p) == {j \in JobIds : proc[j] = p /\ pc[j] \in {"pass1", "nexus1", "pass2"}}

\* C17: within one worker process at most one engine invocation (pass 1 or
\* pass 2, of any job) is in progress at any time, and no job starts its
\* pass 1 while another job of the process is between the start of its
\* pass 1 and the end of its pass 2.
C17_OneCompilationPerProcess ==
    /\ [](\A p \in Procs : Cardinality(InEngine(p)) <= 1 /\ Cardinality(InCompile(p)) <= 1)
    /\ [][\A j \in JobIds : Deliver(j) => InCompile(proc'[j]) = {}]_vars

\* One process has finished a job and is in pass 1 of the next.
C17_Witness ==
    /\ proc["j1"] = "w1" /\ proc["j2"] = "w1"
    /\ pc["j1"] = "done" /\ pc["j2"] = "pass1"

\* C18: for a job with preserve_assets set, no HTML entry is put to
\* ttpedia-html before every shared-asset upload of the run has succeeded
\* and its /assets_uploaded call has been handled and answered.
C18_HtmlAfterAssetsAndAck ==
    [][\A j \in JobIds :
        (UploadHtml(j) /\ is_some(preserve_of(resp[j])))
        => /\ assets[j] = {} /\ ~assetPutFailed[j]
           /\ \A f \in RunAssetFiles(j) : <<j, f>> \in sharedassets
           /\ <<preserve_of(resp[j])[1], j>> \in acks]_vars

\* A job with two shared-asset files has uploaded its HTML entry.
C18_Witness ==
    \E j \in JobIds :
        /\ pc[j] = "done"
        /\ Cardinality(RunAssetFiles(j)) = 2
        /\ \A e \in job_entries(j) : <<doc_id(j), strip_entry_prefix(e)>> \in html

\* C19: if a shared-asset upload of a job's run fails, the run ends without
\* calling /assets_uploaded: its sequence number is never acknowledged and
\* no step of it changes cur_seqnum or cur_bucket_key.
C19_NoAckAfterFailedAssetUpload ==
    /\ [](\A j \in JobIds :
        assetPutFailed[j]
        => /\ pc[j] = "failed"
           /\ is_some(preserve_of(resp[j])) => <<preserve_of(resp[j])[1], j>> \notin acks)
    /\ [][\A j \in JobIds : assetPutFailed[j] => ~Notify(j)]_vars

\* The second of two shared-asset uploads of a run failed.
C19_Witness ==
    \E j \in JobIds :
        /\ assetPutFailed[j]
        /\ \E f \in RunAssetFiles(j) : <<j, f>> \in sharedassets
        /\ \E f \in RunAssetFiles(j) : <<j, f>> \notin sharedassets

\* C20 as stated: when a shared-asset upload of a job's run has failed, the
\* run still uploads the job's HTML entries: once it has ended they are in
\* ttpedia-html.
C20_HtmlUploadedDespiteAssetFailure ==
    \A j \in JobIds :
        (assetPutFailed[j] /\ pc[j] \in {"done", "failed"})
        => \A e \in job_entries(j) : <<doc_id(j), strip_entry_prefix(e)>> \in html


\* ---- The claims about pass 2 and the end of a compilation ----

\* The events of step `step` in the current run of job j, by position.
EventsOf(j, step) == {i \in 1..Len(trail[j]) : trail[j][i].step = step}

\* The /pass1 response the current run of job j received.
RunResponse(j) == resp[j][1]

\* The part of a pass-2 input that stands directly before the content.
BeforeContent(input) ==
    LET k == CHOOSE i \in 1..Len(input) : input[i].part = "content"
    IN  input[k - 1]

\* C21 (as the specification states it): the pass-2 input of a run holds the
\* resolved_reference_tex of the run's /pass1 response, placed before the
\* document content, and is marked \passonefalse.
C21_Pass2InputHasResolvedReferences ==
    \A j \in JobIds : \A i \in EventsOf(j, "pass2") :
        LET input == trail[j][i].info.input
        IN  /\ \E k \in 1..Len(input) : input[k].part = "passonefalse"
            /\ BeforeContent(input).part = "rrtex"
            /\ BeforeContent(input).body = RunResponse(j).resolved_reference_tex

\* ---- The worker against any Nexus ----

\* The /pass1 responses of the protocol: NexusPostPass1Response with
\* `preserve_assets: Option<usize>` absent or set.
PreserveOptions == {None} \cup {Some(n) : n \in 1..MaxSeq}

\* CompileState::nexus1 when the other end is any server speaking the
\* protocol: the round-trip fails, or gives a response of the type.
StubNexus1(j) ==
    /\ pc[j] = "nexus1"
    /\ UNCHANGED <<out_dir, assets, htmls, runs, proc, assetPutFailed, bucketVars,
                   lockVars, codec, frontVars, orderVars, nexusVars, obsVars>>
    /\ \/ /\ pc' = [pc EXCEPT ![j] = after_nexus1(FALSE)]
          /\ trail' = [trail EXCEPT ![j] = Append(@, Event("nexus1", FALSE, None))]
          /\ UNCHANGED resp
       \/ \E preserve \in PreserveOptions :
            LET body == NexusPostPass1Response(job_assets_json(j), << >>, preserve)
            IN  /\ pc' = [pc EXCEPT ![j] = after_nexus1(TRUE)]
                /\ resp' = [resp EXCEPT ![j] = Some(body)]
                /\ trail' = [trail EXCEPT ![j] = Append(@, Event("nexus1", TRUE, Some(body)))]

WorkerNext ==
    \E j \in JobIds :
        \/ Deliver(j)
        \/ Pass1(j)
        \/ StubNexus1(j)
        \/ Pass2(j)
        \/ Scan(j)
        \/ UploadAsset(j)
        \/ Notify(j)
        \/ UploadHtml(j)

WorkerSpec == Init /\ [][WorkerNext]_vars

\* The shared assets of the specification a response carries.
ResponseAssetFiles(body) ==
    {p \in AssetPaths :
        MergeEntries(AssetSpecification_default, body.assets_json.entries)[p] # NoAsset}

\* C22: a run emits, uploads and acknowledges shared assets exactly when its
\* /pass1 response carried preserve_assets. Without it pass 2 runs with asset
\* emission off, nothing is put to ttpedia-sharedassets and /assets_uploaded
\* is not called; with preserve_assets = n pass 2 emits the assets, every
\* object is put under <job id>/<filename>, the acknowledgment carries
\* seq_num = n and bucket_key = the job id, and a run that completes has put
\* every asset and acknowledged.
C22_AssetsIffPreserve ==
    \A j \in JobIds :
        IF resp[j] = None
        THEN /\ EventsOf(j, "pass2") = {}
             /\ EventsOf(j, "put_asset") = {}
             /\ EventsOf(j, "assets_uploaded") = {}
        ELSE LET n == RunResponse(j).preserve_assets
             IN  /\ \A i \in EventsOf(j, "pass2") :
                        trail[j][i].info.emit_assets = (n # None)
                 /\ n = None =>
                        /\ EventsOf(j, "put_asset") = {}
                        /\ EventsOf(j, "assets_uploaded") = {}
                        /\ \A f \in out_dir[j] : ~(ends_with_css(f) \/ ends_with_otf(f))
                 /\ n # None =>
                        /\ \A i \in EventsOf(j, "put_asset") :
                              /\ trail[j][i].info[1] = j
                              /\ trail[j][i].info[2] \in ResponseAssetFiles(RunResponse(j))
                              /\ trail[j][i].ok => trail[j][i].info \in sharedassets
                        /\ \A i \in EventsOf(j, "assets_uploaded") :
                              /\ trail[j][i].info.seq_num = n[1]
                              /\ trail[j][i].info.bucket_key = j
                        /\ pc[j] = "done" =>
                              /\ EventsOf(j, "assets_uploaded") # {}
                              /\ \A f \in ResponseAssetFiles(RunResponse(j)) :
                                    \E i \in EventsOf(j, "put_asset") :
                                        trail[j][i].info = <<j, f>>

\* C22: one job completed without preserve_assets and another completed with
\* it after putting an asset.
C22_Witness ==
    \E j, k \in JobIds :
        /\ pc[j] = "done" /\ resp[j] # None /\ pc[k] = "done" /\ resp[k] # None
        /\ RunResponse(j).preserve_assets = None
        /\ RunResponse(k).preserve_assets # None
        /\ EventsOf(k, "put_asset") # {}

\* The steps of the events of the current run of job j, in order.
StepsDone(j) == [i \in 1..Len(trail[j]) |-> trail[j][i].step]

\* C23: do_compile returns Ok(()), which acks the job, only after pass 1, the
\* /pass1 round-trip, pass 2, the put of every shared asset, the
\* /assets_uploaded call (when preserve_assets is set) and the put of every
\* entry have all succeeded; a run in which one of them failed has ended
\* without the ack.
C23_AckOnlyAfterAllSteps ==
    \A j \in JobIds :
        /\ pc[j] = "done" =>
            /\ \A i \in 1..Len(trail[j]) : trail[j][i].ok
            /\ Len(trail[j]) >= 3
            /\ SubSeq(StepsDone(j), 1, 3) = <<"pass1", "nexus1", "pass2">>
            /\ resp[j] # None
            /\ \A f \in RunAssetFiles(j) :
                  \E i \in EventsOf(j, "put_asset") : trail[j][i].info = <<j, f>>
            /\ RunResponse(j).preserve_assets # None => EventsOf(j, "assets_uploaded") # {}
            /\ \A e \in job_entries(j) :
                  \E i \in EventsOf(j, "put_html") :
                      trail[j][i].info = <<doc_id(j), strip_entry_prefix(e)>>
        /\ (\E i \in 1..Len(trail[j]) : ~trail[j][i].ok) => pc[j] = "failed"

\* C23: a job was acked after putting assets, acknowledging them and putting
\* its entries, in its second run, the first having failed.
C23_Witness ==
    \E j \in JobIds :
        /\ pc[j] = "done" /\ runs[j] = 2
        /\ EventsOf(j, "put_asset") # {}
        /\ EventsOf(j, "assets_uploaded") # {}
        /\ EventsOf(j, "put_html") # {}

\* ---- The submission front door: POST /submit ----

\* The doc_id strings of the requests: one that does not parse, one that
\* parses and names no document, and the documents of the repo.
DocIdStrings == {"not an id", "AAAA", "D1", "D2", "D3", "D4", "D5"}

\* `req.doc_id.parse()`: Err (None) or the DocumentId.
parse(s) == IF s = "not an id" THEN None ELSE Some(s)

\* A value of a document's root map.
Text(t) == [kind |-> "Text", text |-> t]
Scalar(t) == [kind |-> "Scalar", text |-> t]

\* The documents of the repo: two with a collaborative text at "content",
\* one whose "content" is not a text, one without "content", one whose root
\* is not a map.
Repo ==
    [d \in {"D1", "D2", "D3", "D4", "D5"} |->
        CASE d = "D1" -> [is_map |-> TRUE, content |-> Some(Text("text of d1"))]
          [] d = "D2" -> [is_map |-> TRUE, content |-> Some(Text("text of d2"))]
          [] d = "D3" -> [is_map |-> TRUE, content |-> Some(Scalar("3"))]
          [] d = "D4" -> [is_map |-> TRUE, content |-> None]
          [] d = "D5" -> [is_map |-> FALSE, content |-> None]]

\* `repo.find(doc_id).await`: Err when the repo is stopping, Ok(None) for an
\* unknown id, Ok(Some(handle)) otherwise.
repo_find(id, stopping) ==
    IF stopping THEN [ok |-> FALSE, handle |-> None]
    ELSE [ok |-> TRUE, handle |-> IF id \in DOMAIN Repo THEN Some(Repo[id]) ELSE None]

\* Variant: any value at "content" is taken as the text.
maybe_content_any_value(doc) ==
    IF doc.is_map /\ doc.content # None THEN Some(doc.content[1].text) ELSE None

\* The closure of with_document: `hdoc.as_map()?.get("content")?`, then
\* `if let Value::Text(ctext) = cval`.
maybe_content(doc) ==
    IF doc.is_map /\ doc.content # None /\ doc.content[1].kind = "Text"
    THEN Some(doc.content[1].text)
    ELSE None

\* `Job::new("compile", vec![req.doc_id, content])`
Job(kind, args) == [kind |-> kind, args |-> args]

\* PostSubmitResponse: the status, as the pieces the format strings join.
PostSubmitResponse(status) == [status |-> status]

\* What `client.enqueue(...).await` can do: push the job and return Ok, fail
\* without pushing, or push and fail to read the reply.
EnqueueOutcomes == {"ok", "err", "err after push"}

\* post_submit_handler up to the enqueue: the response of an early return
\* (and no job), or the job to enqueue.
submit_checks(doc_id_string, stopping) ==
    LET id == parse(doc_id_string)
    IN  IF id = None
        THEN [job |-> None,
              response |-> Some(PostSubmitResponse(<<"illegal document ID ", doc_id_string>>))]
        ELSE LET found == repo_find(id[1], stopping)
             IN  IF ~found.ok
                 THEN [job |-> None,
                       response |-> Some(PostSubmitResponse(<<"server shutting down">>))]
                 ELSE IF found.handle = None
                 THEN [job |-> None,
                       response |-> Some(PostSubmitResponse(
                                        <<"document ", doc_id_string, " not found">>))]
                 ELSE LET c == maybe_content(found.handle[1])
                      IN  IF c = None
                          THEN [job |-> None,
                                response |-> Some(PostSubmitResponse(
                                        <<"malformatted document ", doc_id_string>>))]
                          ELSE [job |-> Some(Job("compile", <<doc_id_string, c[1]>>)),
                                response |-> None]

\* post_submit_handler: the checks, then the enqueue under the client mutex;
\* `.expect("oh no Faktory failed")` panics and the call gives no response.
post_submit_handler(doc_id_string, stopping, enqueue) ==
    /\ submitted.n < MaxSubmits
    /\ LET checked == submit_checks(doc_id_string, stopping)
       IN  IF checked.job = None
           THEN /\ queue' = queue
                /\ submitted' = [n |-> submitted.n + 1, doc_id |-> doc_id_string,
                                 response |-> checked.response]
           ELSE /\ queue' = IF enqueue = "err" THEN queue
                            ELSE Append(queue, checked.job[1])
                /\ submitted' = [n |-> submitted.n + 1, doc_id |-> doc_id_string,
                                 response |-> IF enqueue = "ok"
                                              THEN Some(PostSubmitResponse(<<"ok">>))
                                              ELSE None]
    /\ UNCHANGED <<nexusVars, obsVars, jobVars, bucketVars, lockVars, codec, orderVars>>

SubmitNext ==
    \E doc_id_string \in DocIdStrings, stopping \in BOOLEAN, enqueue \in EnqueueOutcomes :
        post_submit_handler(doc_id_string, stopping, enqueue)

SubmitSpec == Init /\ [][SubmitNext]_vars

\* ---- The claims about POST /submit ----

\* The requests whose doc_id does not parse, names no document, or names a
\* document whose root has no collaborative text at "content".
BadDocIds == {"not an id", "AAAA", "D3", "D4", "D5"}

\* The job a request for a good document asks for.
ExpectedJob(d) ==
    [kind |-> "compile", args |-> <<d, IF d = "D1" THEN "text of d1" ELSE "text of d2">>]

OkResponse == Some([status |-> <<"ok">>])
NotFoundResponse(d) == Some([status |-> <<"document ", d, " not found">>])
ShuttingDownResponse == Some([status |-> <<"server shutting down">>])

\* The status message the handler has for a bad request.
BadDocumentResponse(d) ==
    IF d = "not an id" THEN Some([status |-> <<"illegal document ID ", d>>])
    ELSE IF d = "AAAA" THEN NotFoundResponse(d)
    ELSE Some([status |-> <<"malformatted document ", d>>])

\* A step that is one /submit call.
SubmitStep == submitted'.n = submitted.n + 1

\* C24 (as the specification states it): /submit enqueues a job exactly when
\* it answers "ok"; a bad request gets a status message (a missing document:
\* "document <doc_id> not found") and enqueues nothing; every other request
\* enqueues the one job compile [doc_id, content] and answers "ok".
C24_EnqueueIffOk ==
    [][SubmitStep =>
        LET d == submitted'.doc_id
            r == submitted'.response
        IN  /\ (queue' # queue) <=> (r = OkResponse)
            /\ d \in BadDocIds =>
                  /\ r # None /\ r # OkResponse /\ queue' = queue
                  /\ d = "AAAA" => r = NotFoundResponse(d)
            /\ d \notin BadDocIds =>
                  /\ queue' = Append(queue, ExpectedJob(d))
                  /\ r = OkResponse]_vars

\* C24: /submit answers "ok" only after enqueuing the one job compile
\* [doc_id, content] of a good document, and a call that answers anything
\* else has enqueued nothing. A request whose doc_id does not parse is
\* answered "illegal document ID <doc_id>"; for a doc_id that parses, a failed
\* repo lookup is answered "server shutting down", a missing document
\* "document <doc_id> not found", and a document without a collaborative text
\* at "content" "malformatted document <doc_id>". For a good document found
\* in the repo, a failed enqueue panics the handler: the call has no response
\* and the job may or may not have reached the queue.
C24_OkOnlyAfterEnqueue ==
    [][SubmitStep =>
        LET d == submitted'.doc_id
            r == submitted'.response
        IN  /\ r = OkResponse => (d \notin BadDocIds /\ queue' = Append(queue, ExpectedJob(d)))
            /\ (r # None /\ r # OkResponse) => queue' = queue
            /\ r = None =>
                  /\ d \notin BadDocIds
                  /\ queue' \in {queue, Append(queue, ExpectedJob(d))}
            /\ d = "not an id" => r = BadDocumentResponse(d)
            /\ (d \in BadDocIds /\ d # "not an id") =>
                  r \in {BadDocumentResponse(d), ShuttingDownResponse}
            /\ d \notin BadDocIds => r \in {OkResponse, ShuttingDownResponse, None}]_vars

\* C24: after a job was enqueued with "ok", a request for a missing document
\* got the not-found message and the queue still holds that one job.
C24_Witness ==
    /\ submitted.doc_id = "AAAA"
    /\ submitted.response = NotFoundResponse("AAAA")
    /\ queue = <<ExpectedJob("D1")>>

\* ---- The first compilation ----

\* One job, submitted to a fresh Nexus; the queue delivers it and the runtime
\* runs every step that is ready.
FirstJob == "j1"

FirstNext ==
    \/ Deliver(FirstJob)
    \/ Pass1(FirstJob)
    \/ Nexus1(FirstJob)
    \/ Pass2(FirstJob)
    \/ Scan(FirstJob)
    \/ UploadAsset(FirstJob)
    \/ Notify(FirstJob)
    \/ UploadHtml(FirstJob)

\* The queue hands out a job that is waiting, and the runtime polls a task
\* that can go on: a step that stays possible is taken.
FirstSpec == Init /\ [][FirstNext]_vars /\ WF_vars(FirstNext)

\* The first delivery of the job ran all its steps and was acked.
FirstRunAcked == pc[FirstJob] = "done" /\ runs[FirstJob] = 1

\* C25: first-ever compilation. From the initial Nexus state (cur_seqnum = 0,
\* next_proposed_seqnum = 1, empty index) the first run of a single job
\* comes to an end, and when none of its steps failed it is acked with the
\* /pass1 response carrying preserve_assets = 1, the /assets_uploaded{1, job}
\* call accepted, cur_seqnum = 1, cur_bucket_key = the job id and the job's
\* entries in ttpedia-html.
C25_FirstCompilation ==
    /\ <>(pc[FirstJob] = "failed" \/ FirstRunAcked)
    /\ [](FirstRunAcked =>
            /\ \A i \in 1..Len(trail[FirstJob]) : trail[FirstJob][i].ok
            /\ RunResponse(FirstJob).preserve_assets = Some(1)
            /\ <<1, FirstJob>> \in acks
            /\ 1 \in accepted
            /\ cur_seqnum = 1
            /\ cur_bucket_key = FirstJob
            /\ next_proposed_seqnum = 2
            /\ \A e \in job_entries(FirstJob) :
                  <<doc_id(FirstJob), strip_entry_prefix(e)>> \in html)

\* C25: the first run went through an asset upload and was acked.
C25_Witness ==
    /\ FirstRunAcked
    /\ cur_seqnum = 1
    /\ EventsOf(FirstJob, "put_asset") # {}
    /\ index_db # << >>

\* ---- The claims about what a /pass1 request stages ----

\* The name with prefix entry- and suffix .html stripped, empty when the name
\* does not have both.
StemOfName(name) ==
    LET n == Len(name)
    IN  IF /\ n >= Len(ENTRY_PREFIX) + Len(HTML_SUFFIX)
           /\ \A i \in 1..Len(ENTRY_PREFIX) : name[i] = ENTRY_PREFIX[i]
           /\ \A i \in 1..Len(HTML_SUFFIX) : name[n - Len(HTML_SUFFIX) + i] = HTML_SUFFIX[i]
        THEN [i \in 1..(n - Len(ENTRY_PREFIX) - Len(HTML_SUFFIX)) |-> name[Len(ENTRY_PREFIX) + i]]
        ELSE << >>

\* current_entry as the specification gives it for line i: empty before the
\* first Output line, the stem of the last Output line above i after it.
ExpectedCurrentEntry(t, i) ==
    LET outs == {k \in 1..(i - 1) : t[k].kind = "Output"}
    IN  IF outs = {} THEN << >> ELSE StemOfName(t[Max(outs)].name)

\* The lines of kind `kind` for (index, entry) = key, and the keys staged.
LinesFor(t, kind, key) ==
    {i \in 1..Len(t) : t[i].kind = kind /\ <<t[i].index, t[i].entry>> = key}
StagedKeys(t) ==
    {<<t[i].index, t[i].entry>> :
        i \in {k \in 1..Len(t) : t[k].kind \in {"IndexDef", "IndexText"}}}

\* C26: a committed /pass1 request has staged, for each (index, entry) with
\* IndexDef lines, entry = the current_entry in force at the last of them
\* (empty before the first Output line, else the name of the last Output line
\* with entry- and .html stripped, empty when the name lacks one of them) and
\* fragment = its fragment; for each key with IndexText lines the forms of
\* the last of them; and nothing for a field no line staged.
C26_StagedFromCurrentEntry ==
    [][\A t \in IndexTxts : Pass1Committed(t) =>
        \A key \in StagedKeys(t) :
            LET ds == LinesFor(t, "IndexDef", key)
                ts == LinesFor(t, "IndexText", key)
                v == indexed'[key]
            IN  /\ ds # {} =>
                      /\ v.entry = Some(ExpectedCurrentEntry(t, Max(ds)))
                      /\ v.fragment = Some(t[Max(ds)].fragment)
                /\ ds = {} => (v.entry = None /\ v.fragment = None)
                /\ ts # {} =>
                      /\ v.tex = Some(t[Max(ts)].tex)
                      /\ v.atplain = Some(t[Max(ts)].atplain)
                /\ ts = {} => (v.tex = None /\ v.atplain = None)]_vars

\* C26: a key was staged under an Output name that is not entry-<stem>.html,
\* and another under the second of two Output lines.
C26_Witness ==
    /\ <<Idx, Bar>> \in DOMAIN indexed
    /\ indexed[<<Idx, Bar>>].entry = Some(<< >>)
    /\ <<Idx, Foo>> \in DOMAIN indexed
    /\ indexed[<<Idx, Foo>>] = [entry |-> Some(Bar), fragment |-> Some(Frag2),
                                atplain |-> None, tex |-> None]
    /\ <<Idx, Foo, Foo>> \in everDefined

\* ---- The asset-state lock across the index transaction ----

\* The /pass1 calls between their sequence-number assignment and their index
\* commit, and those that have committed.
Uncommitted == {c \in CallIds : calls[c].pc = "index"}
Committed == {c \in CallIds : calls[c].pc \in {"respond", "finished"}}

RECURSIVE ResolvedAgainst(_, _)
ResolvedAgainst(db, lines) ==
    IF lines = << >> THEN << >>
    ELSE (IF Head(lines).kind = "IndexRef"
          THEN index_ref_lines(db, Head(lines).index, Head(lines).entry, Head(lines).flags)
          ELSE << >>)
         \o ResolvedAgainst(db, Tail(lines))

\* C28: the resolved_reference_tex of a /pass1 response is what the request's
\* IndexRef lines give against the index store as it was before the request:
\* the IndexDef and IndexText lines of the same pedia_txt, above or below a
\* reference, do not change it, their values being written after the last
\* line.
C28_RefsResolvedAgainstStoreBefore ==
    [][\A t \in IndexTxts : Pass1Committed(t) =>
        lastOp'.resp[1].resolved_reference_tex = ResolvedAgainst(index_db, t)]_vars

\* C28: a request that defined a key and referred to it got ENTRYREF for the
\* reference, and the definition is in the store afterwards.
C28_Witness ==
    /\ lastOp.kind = "pass1" /\ lastOp.ok
    /\ lastOp.resp[1].resolved_reference_tex = << RRLine("loc", Idx, Never, ENTRYREF) >>
    /\ index_bkey(Idx, Never) \in DOMAIN index_db

\* The bytes of field `name` that the lines of t stage for key: those of the
\* last line that sets it, nothing when no line does.
StagedBytes(t, key, name) ==
    LET ds == LinesFor(t, "IndexDef", key)
        ts == LinesFor(t, "IndexText", key)
    IN  CASE name = "entry" ->
                IF ds = {} THEN << >> ELSE ExpectedCurrentEntry(t, Max(ds))
          [] name = "fragment" -> IF ds = {} THEN << >> ELSE t[Max(ds)].fragment
          [] name = "atplain" -> IF ts = {} THEN << >> ELSE t[Max(ts)].atplain
          [] name = "tex" -> IF ts = {} THEN << >> ELSE t[Max(ts)].tex

\* The stored value of a key a request stages: entry, fragment, plain and
\* tex, separated by NUL.
StagedValue(t, key) ==
    StagedBytes(t, key, "entry") \o <<0>> \o StagedBytes(t, key, "fragment") \o <<0>>
        \o StagedBytes(t, key, "atplain") \o <<0>> \o StagedBytes(t, key, "tex")

\* C29: a committed /pass1 request leaves, for every key it stages, the four
\* fields staged in this request as the whole stored value, a field it did
\* not stage being empty whatever was stored before; every other key of the
\* store is unchanged and no other key appears.
C29_StagedKeyReplaced ==
    [][\A t \in IndexTxts : Pass1Committed(t) =>
        LET staged == {index_bkey(k[1], k[2]) : k \in StagedKeys(t)}
        IN  /\ DOMAIN index_db' = DOMAIN index_db \cup staged
            /\ \A k \in StagedKeys(t) :
                  index_db'[index_bkey(k[1], k[2])] = StagedValue(t, k)
            /\ \A bk \in DOMAIN index_db \ staged : index_db'[bk] = index_db[bk]]_vars

\* C29: a key defined under the stem f by one request holds, after a request
\* with only an IndexText for it, the two forms and an empty entry and
\* fragment, while another key keeps its value.
C29_Witness ==
    /\ <<Idx, Foo, Foo>> \in everDefined
    /\ index_bkey(Idx, Foo) \in DOMAIN index_db
    /\ index_db[index_bkey(Idx, Foo)] = <<0, 0>> \o PlainFoo \o <<0>> \o TexFoo
    /\ index_bkey(Idx, Never) \in DOMAIN index_db
    /\ index_db[index_bkey(Idx, Never)] = Bar \o <<0>> \o Frag \o <<0, 0>>

\* ---- The acknowledgments of the pipeline ----

\* The /pass1 response events of the current run of job j that came before
\* event i.
ResponsesBefore(j, i) ==
    {k \in 1..(i - 1) : trail[j][k].step = "nexus1" /\ trail[j][k].ok}

\* C30: with /assets_uploaded called only by workers running the pipeline,
\* every call carries the preserve_assets of a completed /pass1 response the
\* same run of the same job received before, with the job id as bucket key;
\* every seq_num the Nexus accepted was returned by a completed /pass1
\* response and acknowledged by a worker; and a run sends at most one
\* /assets_uploaded call.
C30_AcksFromPass1Responses ==
    /\ \A j \in JobIds :
        /\ Cardinality(EventsOf(j, "assets_uploaded")) <= 1
        /\ \A i \in EventsOf(j, "assets_uploaded") :
              /\ trail[j][i].info.bucket_key = j
              /\ \E k \in ResponsesBefore(j, i) :
                    trail[j][k].info[1].preserve_assets = Some(trail[j][i].info.seq_num)
              /\ trail[j][i].info.seq_num \in Range(responded)
    /\ accepted \subseteq Range(responded)
    /\ accepted \subseteq {a[1] : a \in acks}
    /\ ~unsolicited

\* C30: both jobs completed, each after one acknowledgment, one of which the
\* Nexus accepted and one of which came late.
C30_Witness ==
    /\ \A j \in JobIds : pc[j] = "done" /\ Cardinality(EventsOf(j, "assets_uploaded")) = 1
    /\ Cardinality(acks) >= 2
    /\ \E a \in acks : a[1] \in accepted
    /\ \E a \in acks : a[1] \notin accepted

\* ---- The live generation when an entry is uploaded ----

\* The asset specification a /pass1 response carries, and inclusion of
\* specifications: every asset of a is in b with the same origin.
SpecOf(body) == MergeEntries(AssetSpecification_default, body.assets_json.entries)
Includes(b, a) == \A p \in AssetPaths : a[p] # NoAsset => b[p] = a[p]

\* The jobs whose current run holds a /pass1 response, and its number.
WithResponse == {j \in JobIds : resp[j] # None}
SeqOf(j) == RunResponse(j).preserve_assets[1]

\* C31: whenever a run with preserve_assets = n has put an HTML entry,
\* cur_seqnum >= n, under any interleaving with the other worker, and every
\* asset of the specification the run received is in ttpedia-sharedassets
\* under the live bucket key. The specification handed out by /pass1 only
\* grows with the sequence number: cur_assets never loses or changes an
\* asset, every response in hand is included in cur_assets, and of two
\* responses the one with the higher number includes the other.
C31_LiveGenerationCoversEntry ==
    /\ [](\A j \in WithResponse :
            /\ Includes(cur_assets, SpecOf(RunResponse(j)))
            /\ \A k \in WithResponse :
                  SeqOf(j) <= SeqOf(k) => Includes(SpecOf(RunResponse(k)), SpecOf(RunResponse(j)))
            /\ EventsOf(j, "put_html") # {} =>
                  /\ cur_seqnum >= SeqOf(j)
                  /\ cur_bucket_key \in JobIds
                  /\ \A p \in ResponseAssetFiles(RunResponse(j)) :
                        <<cur_bucket_key, p>> \in sharedassets)
    /\ [][Includes(cur_assets', cur_assets)]_vars

\* C31: a run with number 1 put its entry while the generation of the other
\* job, with number 2, was live.
C31_Witness ==
    \E j, k \in JobIds :
        /\ j # k /\ resp[j] # None
        /\ SeqOf(j) = 1
        /\ EventsOf(j, "put_html") # {}
        /\ cur_seqnum = 2 /\ cur_bucket_key = k

\* ---- The Nexus under load: every handler as a task of the runtime ----

\* An /assets_uploaded or GET /asset request arrives (again): its handler
\* starts and waits for the lock.
SideArrive(k) ==
    /\ side[k] \in {"idle", "finished"}
    /\ side' = [side EXCEPT ![k] = "lock"]
    /\ UNCHANGED <<nexusVars, obsVars, jobVars, bucketVars, lockVars, codec, frontVars,
                   served, commits>>

\* `state.assets.lock().await` of the two handlers.
SideAcquire(k) ==
    /\ side[k] = "lock"
    /\ try_lock(mutex)
    /\ mutex' = mutex \cup {k}
    /\ side' = [side EXCEPT ![k] = "body"]
    /\ UNCHANGED <<nexusVars, obsVars, jobVars, bucketVars, calls, codec, frontVars,
                   served, commits>>

\* The body of the handler, which has no await, and the drop of the guard
\* on return.
SideBody(k) ==
    /\ side[k] = "body"
    /\ IF k = "assets_uploaded"
       THEN \E seq_num \in 1..2 :
               post_assets_uploaded_handler(NexusPostAssetsUploadedRequest(seq_num, "j1"))
       ELSE get_asset_handler("tdux.css")
    /\ mutex' = mutex \ {k}
    /\ side' = [side EXCEPT ![k] = "finished"]
    /\ UNCHANGED <<jobVars, bucketVars, calls, codec, frontVars, served, commits>>

\* The /pass1 requests of the fair runs: one whose merge succeeds and whose
\* index transaction commits or fails, one whose merge panics.
FairRequests ==
    {NexusPostPass1Request(DocA, TxtDefFoo), NexusPostPass1Request(MalformedJson, TxtEmpty)}

\* The request arrives and the handler starts: it waits for the lock.
FairArrive(c) ==
    /\ calls[c].pc = "idle"
    /\ \E req \in FairRequests :
        calls' = [calls EXCEPT ![c] = [NoCall EXCEPT !.pc = "lock", !.req = Some(req)]]
    /\ UNCHANGED <<mutex, nexusVars, obsVars, jobVars, bucketVars, codec, frontVars, orderVars>>

FairLockNext ==
    \/ \E c \in CallIds :
        \/ FairArrive(c)
        \/ Acquire(c)
        \/ MergeAssets(c)
        \/ IndexTxn(c)
        \/ Respond(c)
    \/ \E k \in SideIds :
        \/ SideArrive(k)
        \/ SideAcquire(k)
        \/ SideBody(k)

\* The next step of the handler that holds the guard: the merge, the index
\* transaction (which terminates), the response, or the body.
HolderStep ==
    \/ \E c \in CallIds : MergeAssets(c) \/ IndexTxn(c) \/ Respond(c)
    \/ \E k \in SideIds : SideBody(k)

\* Fair scheduling: the handler that holds the guard takes its next step,
\* and a handler waiting for the lock gets it if the lock is free again and
\* again. Requests arrive or not as the clients please.
FairLockSpec ==
    /\ Init
    /\ [][FairLockNext]_vars
    /\ WF_vars(HolderStep)
    /\ \A c \in CallIds : SF_vars(Acquire(c))
    /\ \A k \in SideIds : SF_vars(SideAcquire(k))

\* The handlers whose guard is alive.
Holders == GuardHolders \cup {k \in SideIds : side[k] = "body"}

====
